---- MODULE Spec2Model ----
(***************************************************************************)
(* A model of renderer.py (render_visual_spec and its helpers).            *)
(*                                                                         *)
(* Numbers.  Python floats are modelled as fixed-point integers counted in *)
(* tenths of a pixel (Unit tenths per pixel), so that the jitter amounts   *)
(* (2.3, 1.8, 1.2 ...), the 0.8 radius floor and the 0.95 shrink factor    *)
(* are exact.  A float division is the floor division \div; its error is   *)
(* below one tenth of a pixel.                                             *)
(*                                                                         *)
(* Python values.  A JSON value is a record with a tag t:                  *)
(*   [t |-> "num", n |-> i]        the number i                            *)
(*   [t |-> "frac", n |-> i]       the float i / Unit (a fractional number)*)
(*   [t |-> "none"]                None (also what dict.get gives for a    *)
(*                                 missing key)                            *)
(*   [t |-> "str", s |-> "..."]    a string used as a name (type, shape)   *)
(*   [t |-> "text", cs |-> <<..>>] a string kept as its characters         *)
(*   [t |-> "list", items |-> <<..>>]                                      *)
(*   [t |-> "dict", kv |-> record] a dict; kv holds exactly the keys       *)
(*                                 present                                 *)
(*                                                                         *)
(* Randomness.  The module-global generator of `random` is the variable    *)
(* rng; every random.uniform / random.random call reads it and advances    *)
(* it, in the order the code makes the calls.                              *)
(***************************************************************************)
EXTENDS Integers, Sequences, FiniteSets, TLC

VARIABLES
    rng,    \* state of the module-global random generator (import random)
    spec,   \* spec[c]: the argument of call c of render_visual_spec
    seed,   \* seed[c]: the value the caller of call c seeds the generator with
    pc,     \* pc[c]: position of call c
    geo,    \* geo[c]: locals of call c set before the element loop (width, height, tx/ty)
    idx,    \* idx[c]: position of the loop `for el in elements` of call c
    svg,    \* svg[c]: the local list svg_parts of call c
    reply,  \* reply[k]: what the k-th call of gemini.generate gives (1: design, 2: repair)
    gpc,    \* position of the request in generate_visual_spec and in the app
    vspec,  \* the local `spec` of generate_visual_spec, then `visual_spec` of the app
    shown,  \* what the app has put on the page for the request
    calls,  \* number of calls of gemini.generate the request has made
    clamp   \* one call of _clamp_y on its own: its arguments, position and result

\* the variables of the request pipeline and of the call of _clamp_y
genvars == <<reply, gpc, vspec, shown, calls, clamp>>

vars == <<rng, spec, seed, pc, geo, idx, svg, reply, gpc, vspec, shown, calls, clamp>>

(***************************************************************************)
(* Program constants                                                       *)
(***************************************************************************)
LEGEND_RESERVED_HEIGHT == 140
CONTENT_TOP_MARGIN == 90

\* tenths of a pixel per pixel (the fixed-point representation of float)
Unit == 10

(***************************************************************************)
(* Bounds of the model                                                     *)
(***************************************************************************)
\* number of distinct values one random draw can take
RngBase == 3
\* longest `elements` list of the mixed-element inputs
MaxElems == 2
\* longest text given to a text element
MaxText == 3
\* largest legend item count
MaxLegend == 20
\* longest list of circles
MaxCircles == 3
\* longest model text, in tokens, of the enumerated texts
MaxTokens == 3

(***************************************************************************)
(* Python values                                                           *)
(***************************************************************************)
NONE == [t |-> "none"]
N(i) == [t |-> "num", n |-> i]
F(tenths) == [t |-> "frac", n |-> tenths]
S(name) == [t |-> "str", s |-> name]
T(chars) == [t |-> "text", cs |-> chars]
L(items) == [t |-> "list", items |-> items]
D(kv) == [t |-> "dict", kv |-> kv]

\* dict.get(key): None when the key is absent
Get(d, key) == IF key \in DOMAIN d.kv THEN d.kv[key] ELSE NONE

\* dict.get(key, default)
GetD(d, key, default) == IF key \in DOMAIN d.kv THEN d.kv[key] ELSE default

\* Python truthiness, as used by `value or default`
Truthy(v) ==
    CASE v.t = "none" -> FALSE
      [] v.t = "num" -> v.n # 0
      [] v.t = "frac" -> v.n # 0
      [] v.t = "str" -> v.s # ""
      [] v.t = "text" -> v.cs # <<>>
      [] v.t = "list" -> v.items # <<>>
      [] v.t = "dict" -> DOMAIN v.kv # {}

IsString(v) == v.t \in {"str", "text"}

IsNumber(v) == v.t \in {"num", "frac"}

\* the strings of the input domain that int() and float() parse, and their value
IsNumeral(v) == v.t = "str" /\ v.s \in {"640"}

NumeralValue(v) == IF v.s = "640" THEN 640 ELSE 0

Min2(a, b) == IF a <= b THEN a ELSE b
Max2(a, b) == IF a >= b THEN a ELSE b

RECURSIVE SeqMin(_)
SeqMin(s) == IF Len(s) = 1 THEN s[1] ELSE Min2(s[1], SeqMin(Tail(s)))

RECURSIVE SeqMax(_)
SeqMax(s) == IF Len(s) = 1 THEN s[1] ELSE Max2(s[1], SeqMax(Tail(s)))

(***************************************************************************)
(* Small utilities                                                         *)
(***************************************************************************)
\* _get_num(value, default): float(value), or default when float() raises
\* TypeError / ValueError.  The result is in tenths.
_get_num(value, default) ==
    CASE value.t = "num" -> value.n * Unit
      [] value.t = "frac" -> value.n
      [] IsNumeral(value) -> NumeralValue(value) * Unit
      [] OTHER -> default

\* int(f) of a float f given in tenths: truncation toward zero
PyInt(f) == IF f >= 0 THEN f \div Unit ELSE -((-f) \div Unit)

\* int(v) of a JSON value: raises TypeError on None, a list or a dict and
\* ValueError on a string that is no numeral
IntRaises(v) == ~IsNumber(v) /\ ~IsNumeral(v)

IntOf(v) ==
    CASE v.t = "num" -> v.n
      [] v.t = "frac" -> PyInt(v.n)
      [] OTHER -> NumeralValue(v)

\* The generator: a state is a pair (a, v) of digits in base RngBase, kept as
\* a * RngBase + v; a draw returns v and moves to (a, (v + a) % RngBase).  Over
\* the states, two draws in a row take every pair of values.
RngStates == 0 .. (RngBase * RngBase - 1)

RngOut(r) == r % RngBase

\* the state after k draws from state r
RngAdvance(r, k) ==
    ((r \div RngBase) * RngBase) + (((r % RngBase) + k * (r \div RngBase)) % RngBase)

\* random.uniform(lo, hi) read as the k-th draw (k >= 1) made from state r
Uniform(lo, hi, r, k) ==
    lo + ((hi - lo) * RngOut(RngAdvance(r, k - 1))) \div (RngBase - 1)

\* _jitter(value, amount), as the k-th draw from r
_jitter(value, amount, r, k) == value + Uniform(-amount, amount, r, k)

ContentBottom(height) == (height - LEGEND_RESERVED_HEIGHT - 20) * Unit

\* _clamp_y without the test against content_bottom
ClampYTopOnly(y, height) ==
    IF y < CONTENT_TOP_MARGIN * Unit THEN CONTENT_TOP_MARGIN * Unit ELSE y

_clamp_y(y, height) ==
    IF y < CONTENT_TOP_MARGIN * Unit THEN CONTENT_TOP_MARGIN * Unit
    ELSE IF y > ContentBottom(height) THEN ContentBottom(height)
    ELSE y

\* no call of _clamp_y on its own is made
NoClamp == [y |-> 0, height |-> 0, st |-> "off", out |-> 0]

\* str.replace(old, new) for a one-character old
RECURSIVE Replace(_, _, _)
Replace(cs, old, new) ==
    IF cs = <<>> THEN <<>>
    ELSE (IF Head(cs) = old THEN new ELSE <<Head(cs)>>) \o Replace(Tail(cs), old, new)

AMP == <<"&", "a", "m", "p", ";">>
LT == <<"&", "l", "t", ";">>
GT == <<"&", "g", "t", ";">>
QUOT == <<"&", "q", "u", "o", "t", ";">>
APOS == <<"&", "a", "p", "o", "s", ";">>

\* _escape with the ampersand pass made last
_escape_amp_last(cs) ==
    Replace(Replace(Replace(Replace(Replace(cs, "<", LT), ">", GT), "\"", QUOT), "'", APOS), "&", AMP)

\* _escape(text) of a string given as its characters: five replace passes
_escape(cs) ==
    Replace(Replace(Replace(Replace(Replace(cs, "&", AMP), "<", LT), ">", GT), "\"", QUOT), "'", APOS)

(***************************************************************************)
(* Bounding box (for scaling)                                              *)
(***************************************************************************)
\* the running bbox (min_x, min_y, max_x, max_y); has = FALSE is (None, None, None, None)
NoBbox == [has |-> FALSE, min_x |-> 0, min_y |-> 0, max_x |-> 0, max_y |-> 0]

\* _expand_bbox that sets the upper bounds only on the first expansion
ExpandBboxKeepsMax(bbox, xs, ys) ==
    IF xs = <<>> \/ ys = <<>> THEN bbox
    ELSE [has |-> TRUE,
          min_x |-> IF ~bbox.has \/ SeqMin(xs) < bbox.min_x THEN SeqMin(xs) ELSE bbox.min_x,
          max_x |-> IF ~bbox.has THEN SeqMax(xs) ELSE bbox.max_x,
          min_y |-> IF ~bbox.has \/ SeqMin(ys) < bbox.min_y THEN SeqMin(ys) ELSE bbox.min_y,
          max_y |-> IF ~bbox.has THEN SeqMax(ys) ELSE bbox.max_y]

_expand_bbox(bbox, xs, ys) ==
    IF xs = <<>> \/ ys = <<>> THEN bbox
    ELSE [has |-> TRUE,
          min_x |-> IF ~bbox.has \/ SeqMin(xs) < bbox.min_x THEN SeqMin(xs) ELSE bbox.min_x,
          max_x |-> IF ~bbox.has \/ SeqMax(xs) > bbox.max_x THEN SeqMax(xs) ELSE bbox.max_x,
          min_y |-> IF ~bbox.has \/ SeqMin(ys) < bbox.min_y THEN SeqMin(ys) ELSE bbox.min_y,
          max_y |-> IF ~bbox.has \/ SeqMax(ys) > bbox.max_y THEN SeqMax(ys) ELSE bbox.max_y]

\* lower() leaving the name as it is
LowerKeepsCase(name) == name

\* str.lower() on the type and shape names of the input domain
Lower(name) ==
    CASE name = "CIRCLE" -> "circle"
      [] name = "Text" -> "text"
      [] OTHER -> name

\* `(el.get(key) or "").lower()`: el.get raises AttributeError when el is no
\* dict, .lower() raises AttributeError when the value is truthy and no string.
NameRaises(el, key) ==
    \/ el.t # "dict"
    \/ Truthy(Get(el, key)) /\ ~IsString(Get(el, key))

\* the name with a missing one read as "circle"
NameOfCircleWhenMissing(el, key) ==
    IF Truthy(Get(el, key)) THEN Lower(Get(el, key).s) ELSE "circle"

NameOf(el, key) ==
    IF Truthy(Get(el, key)) THEN Lower(Get(el, key).s) ELSE ""

\* `isinstance(p, (list, tuple)) and len(p) >= 2`
ValidPoint(p) == p.t = "list" /\ Len(p.items) >= 2

\* the loop over the points left at the first malformed entry
RECURSIVE ValidPointsUntilBad(_)
ValidPointsUntilBad(items) ==
    IF items = <<>> \/ ~ValidPoint(Head(items)) THEN <<>>
    ELSE <<Head(items)>> \o ValidPointsUntilBad(Tail(items))

\* the entries of `points` the loops `for p in pts` keep, in order
RECURSIVE ValidPoints(_)
ValidPoints(items) ==
    IF items = <<>> THEN <<>>
    ELSE (IF ValidPoint(Head(items)) THEN <<Head(items)>> ELSE <<>>)
         \o ValidPoints(Tail(items))

\* what `for p in (el.get("points") or [])` iterates over; a string or a dict
\* iterates over characters or keys, none of which is a list
PointItems(el) ==
    IF Get(el, "points").t = "list" THEN Get(el, "points").items ELSE <<>>

\* iterating a truthy number raises TypeError
PointsRaise(el) == IsNumber(Get(el, "points")) /\ Truthy(Get(el, "points"))

\* `area_center[0]`, `area_center[1]` on `el.get("area_center") or default`:
\* TypeError on a number, IndexError on a one-entry list
AreaCenterRaises(el) ==
    LET ac == Get(el, "area_center") IN
    /\ Truthy(ac)
    /\ \/ IsNumber(ac)
       \/ ac.t = "dict"
       \/ ac.t = "list" /\ Len(ac.items) < 2

\* area_center[i] with the default list [d1, d2] when area_center is falsy;
\* a string of two or more characters gives characters, which _get_num defaults
AreaCenterAt(el, i, d) ==
    LET ac == Get(el, "area_center") IN
    IF ~Truthy(ac) THEN d
    ELSE IF ac.t = "list" THEN _get_num(ac.items[i], d)
    ELSE d

\* one iteration of the loop of _compute_bbox: raised, or the xs / ys handed
\* to _expand_bbox (use = FALSE on `continue`)
BboxOf(el, width, height) ==
    LET hw == (width * Unit) \div 2
        hh == (height * Unit) \div 2
        no == [raised |-> FALSE, use |-> FALSE, xs |-> <<>>, ys |-> <<>>]
        pts(xs, ys) == [raised |-> FALSE, use |-> TRUE, xs |-> xs, ys |-> ys]
    IN
    IF NameRaises(el, "type") THEN [no EXCEPT !.raised = TRUE]
    ELSE LET el_type == NameOf(el, "type")
             x == _get_num(Get(el, "x"), hw)
             y == _get_num(Get(el, "y"), hh)
         IN
         CASE el_type = "circle" ->
                LET r == _get_num(Get(el, "radius"), 0) IN
                pts(<<x - r, x + r>>, <<y - r, y + r>>)
           [] el_type = "line" ->
                LET x2 == _get_num(Get(el, "x2"), x + 10 * Unit)
                    y2 == _get_num(Get(el, "y2"), y)
                IN pts(<<x, x2>>, <<y, y2>>)
           [] el_type = "polygon" ->
                IF PointsRaise(el) THEN [no EXCEPT !.raised = TRUE]
                ELSE LET vp == ValidPoints(PointItems(el)) IN
                     IF vp = <<>> THEN no
                     ELSE pts([i \in 1..Len(vp) |-> _get_num(vp[i].items[1], 0)],
                              [i \in 1..Len(vp) |-> _get_num(vp[i].items[2], 0)])
           [] el_type = "text" -> pts(<<x>>, <<y>>)
           [] el_type = "cluster_area" ->
                LET w == _get_num(Get(el, "width"), 100 * Unit)
                    h == _get_num(Get(el, "height"), 60 * Unit)
                IN pts(<<x, x + w>>, <<y, y + h>>)
           [] el_type = "shape_cluster" ->
                IF AreaCenterRaises(el) THEN [no EXCEPT !.raised = TRUE]
                ELSE LET cx == AreaCenterAt(el, 1, hw)
                         cy == AreaCenterAt(el, 2, hh)
                         pad == 50 * Unit
                     IN pts(<<cx - pad, cx + pad>>, <<cy - pad, cy + pad>>)
           [] el_type = "visualization_unit" ->
                LET y_start == _get_num(Get(el, "y_start"), hh) IN
                pts(<<x - 30 * Unit, x + 30 * Unit>>, <<y_start, y_start + 140 * Unit>>)
           [] OTHER -> no

\* _compute_bbox(elements, width, height): the loop from element i on, with
\* the running bbox; raised when an iteration raises
RECURSIVE BboxFrom(_, _, _, _, _)
BboxFrom(elements, i, bbox, width, height) ==
    IF i > Len(elements) THEN [raised |-> FALSE, bbox |-> bbox]
    ELSE LET b == BboxOf(elements[i], width, height) IN
         IF b.raised THEN [raised |-> TRUE, bbox |-> bbox]
         ELSE BboxFrom(elements, i + 1,
                       IF b.use THEN _expand_bbox(bbox, b.xs, b.ys) ELSE bbox,
                       width, height)

_compute_bbox(elements, width, height) == BboxFrom(elements, 1, NoBbox, width, height)

(***************************************************************************)
(* Fit transform                                                           *)
(***************************************************************************)
Abs(a) == IF a >= 0 THEN a ELSE -a

RECURSIVE GCD(_, _)
GCD(a, b) == IF b = 0 THEN (IF a = 0 THEN 1 ELSE a) ELSE GCD(b, a % b)

\* Geometry with the test of the vertical extent left out of the condition
GeometryFitByWidth(width, height, bbox) ==
    LET margin_left_right == (width * Unit) \div 10
        margin_top == (CONTENT_TOP_MARGIN + 10) * Unit
        margin_bottom == ContentBottom(height) - 10 * Unit
        avail_w == width * Unit - 2 * margin_left_right
        fit == bbox.has /\ bbox.max_x > bbox.min_x
        n0 == avail_w * 95
        d0 == (bbox.max_x - bbox.min_x) * 100
    IN [width |-> width, height |-> height, bbox |-> bbox, fit |-> fit,
        orig_cx |-> (bbox.min_x + bbox.max_x) \div 2,
        orig_cy |-> (bbox.min_y + bbox.max_y) \div 2,
        num |-> IF ~fit THEN 1 ELSE n0 \div GCD(Abs(n0), d0),
        den |-> IF ~fit THEN 1 ELSE d0 \div GCD(Abs(n0), d0),
        target_cx |-> (width * Unit) \div 2,
        target_cy |-> (margin_top + margin_bottom) \div 2]

\* the locals of render_visual_spec that the element loop reads: width,
\* height and the closures tx, ty.  fit = FALSE is the identity fallback;
\* otherwise scale is the fraction num / den, kept in lowest terms.
\* bbox is the local (min_x, min_y, max_x, max_y) the transform is made from.
Geometry(width, height, bbox) ==
    LET content_bottom == ContentBottom(height)
        margin_left_right == (width * Unit) \div 10
        margin_top == (CONTENT_TOP_MARGIN + 10) * Unit
        margin_bottom == content_bottom - 10 * Unit
        avail_w == width * Unit - 2 * margin_left_right
        avail_h == margin_bottom - margin_top
        fit == bbox.has /\ bbox.max_x > bbox.min_x /\ bbox.max_y > bbox.min_y
        bw == bbox.max_x - bbox.min_x
        bh == bbox.max_y - bbox.min_y
        \* sx <= sy, i.e. avail_w / bw <= avail_h / bh
        by_x == avail_w * bh <= avail_h * bw
        \* scale = min(sx, sy) * 0.95 = n0 / d0
        n0 == IF by_x THEN avail_w * 95 ELSE avail_h * 95
        d0 == IF by_x THEN bw * 100 ELSE bh * 100
    IN [width |-> width, height |-> height, bbox |-> bbox, fit |-> fit,
        orig_cx |-> (bbox.min_x + bbox.max_x) \div 2,
        orig_cy |-> (bbox.min_y + bbox.max_y) \div 2,
        num |-> IF ~fit THEN 1 ELSE n0 \div GCD(Abs(n0), d0),
        den |-> IF ~fit THEN 1 ELSE d0 \div GCD(Abs(n0), d0),
        target_cx |-> (width * Unit) \div 2,
        target_cy |-> (margin_top + margin_bottom) \div 2]

tx(g, x) == IF g.fit THEN g.target_cx + ((x - g.orig_cx) * g.num) \div g.den ELSE x

ty(g, y) == IF g.fit THEN g.target_cy + ((y - g.orig_cy) * g.num) \div g.den ELSE y

(***************************************************************************)
(* Emitted primitives                                                      *)
(*                                                                         *)
(* An entry of svg_parts is a record: its tag, the part of the render that *)
(* emitted it (role), the index of the element it was emitted for (el, 0   *)
(* outside the element loop), the x and y coordinates written into it, in  *)
(* the order written, its radius r, its width w and height h, its opacity  *)
(* op in thousandths (0 when it has none) and the characters of its text   *)
(* node or of its d attribute (body).  fill and stroke are the values the   *)
(* element loop formats into the fill and stroke attributes of a standard  *)
(* primitive; they are Literal where the template has the attribute as a   *)
(* literal or not at all.                                                  *)
(***************************************************************************)
Literal == [t |-> "str", s |-> "literal"]

Prim(tag, role, el, xs, ys) ==
    [tag |-> tag, role |-> role, el |-> el, xs |-> xs, ys |-> ys,
     r |-> 0, w |-> 0, h |-> 0, op |-> 0, body |-> <<>>,
     fill |-> Literal, stroke |-> Literal]

\* a step of the render: it raised, or it appended prims to svg_parts and
\* made `draws` draws on the generator
Raised == [raised |-> TRUE, prims |-> <<>>, draws |-> 0]
Emit(prims, draws) == [raised |-> FALSE, prims |-> prims, draws |-> draws]

\* _wobble_path(x1, y1, x2, y2, wobble_strength): the points of the quadratic
\* path, the two draws being draws k and k + 1 from r
_wobble_path(x1, y1, x2, y2, wobble_strength, r, k) ==
    [xs |-> <<x1, (x1 + x2) \div 2 + Uniform(-wobble_strength, wobble_strength, r, k), x2>>,
     ys |-> <<y1, (y1 + y2) \div 2 + Uniform(-wobble_strength, wobble_strength, r, k + 1), y2>>]

\* _get_num(el.get("opacity"), default) in thousandths
Opacity(value, default) ==
    CASE value.t = "num" -> value.n * 1000
      [] value.t = "frac" -> value.n * 100
      [] OTHER -> default

\* f * c / 10 for a float f in tenths and a positive constant c tenths
Times(f, c) == (f * c) \div 10

(***************************************************************************)
(* High-level custom renderers                                             *)
(***************************************************************************)
\* _render_shape_cluster.  Of the shapes, the input domain holds
\* "wobbly_square" and names that match no branch (imperfect_triangle,
\* soft_spiral and starburst are not in it).
_render_shape_cluster(el, i, g, r) ==
    IF AreaCenterRaises(el) \/ NameRaises(el, "shape") THEN Raised
    ELSE
    LET cx == tx(g, AreaCenterAt(el, 1, 0))
        cy == _clamp_y(ty(g, AreaCenterAt(el, 2, 0)), g.height)
        count == Max2(PyInt(_get_num(Get(el, "count"), 3 * Unit)), 0)
        opacity == Opacity(Get(el, "opacity"), 850)
        shape == NameOf(el, "shape")
        per == IF shape = "wobbly_square" THEN 11 ELSE 2
        corner_x == <<-1, 1, 1, -1>>
        corner_y == <<-1, -1, 1, 1>>
        square(j) ==
            LET k == per * (j - 1)
                local_cx == _jitter(cx, 100, r, k + 1)
                local_cy == _clamp_y(_jitter(cy, 100, r, k + 2), g.height)
                size == Uniform(140, 220, r, k + 3)
            IN [Prim("polygon", "element", i,
                     [c \in 1..4 |-> local_cx + corner_x[c] * size
                                     + Uniform(-25, 25, r, k + 2 + 2 * c)],
                     [c \in 1..4 |-> local_cy + corner_y[c] * size
                                     + Uniform(-25, 25, r, k + 3 + 2 * c)])
                EXCEPT !.op = opacity]
    IN Emit(IF shape = "wobbly_square" THEN [j \in 1..count |-> square(j)] ELSE <<>>,
            per * count)

\* _render_visualization_unit
_render_visualization_unit(el, i, g, r) ==
    LET d0 == Get(el, "data") IN
    IF Truthy(d0) /\ d0.t # "dict" THEN Raised
    ELSE
    LET data == IF Truthy(d0) THEN d0 ELSE D(<<>>)
        x == tx(g, _get_num(Get(el, "x"), 0))
        top == _clamp_y(ty(g, _get_num(Get(el, "y_start"), 0)), g.height)
        panel_h == 130 * Unit
        sleep == _get_num(Get(data, "sleep"), 0)
        coffee == Max2(PyInt(_get_num(Get(data, "coffee"), 0)), 0)
        mood == _get_num(Get(data, "mood"), 0)
        loops == Max2(PyInt(_get_num(Get(data, "interactions"), 0)), 0)
        dots == Max2(PyInt(_get_num(Get(data, "steps_density"), 0)), 0)
        \* 1) sleep bar
        bar_h == sleep * 6
        bar_x == x - 28 * Unit
        bar_bottom == top + panel_h - 10 * Unit
        bar_top == _clamp_y(bar_bottom - bar_h, g.height)
        bar == [Prim("rect", "element", i,
                     <<_jitter(bar_x, 15, r, 1)>>, <<_jitter(bar_top, 15, r, 2)>>)
                EXCEPT !.w = 16 * Unit, !.h = bar_bottom - bar_top, !.op = 350]
        \* 2) coffee circles
        cup(n) == [Prim("circle", "element", i,
                        <<_jitter(x, 12, r, 3 + 2 * n)>>,
                        <<_jitter(top + 20 * Unit, 12, r, 4 + 2 * n)>>)
                   EXCEPT !.r = (3 + n * 3) * Unit, !.op = 850]
        k0 == 2 + 2 * coffee
        \* 3) mood petals
        mood_radius == 6 * Unit + Times(mood, 15)
        petal_r(p) == Times(mood_radius, Uniform(8, 11, r, k0 + p))
        petal == [Prim("polygon", "element", i,
                       [p \in 1..8 |-> x + 24 * Unit
                            + Times(petal_r(p), 9) * (IF (p - 1) % 2 = 0 THEN 1 ELSE -1)],
                       [p \in 1..8 |-> top + 40 * Unit
                            + Times(petal_r(p), 6) * (IF (p - 1) % 3 = 0 THEN 1 ELSE -1)])
                  EXCEPT !.op = 450]
        k1 == k0 + 8
        \* 4) interaction loops: 3 draws, then 2 per step
        center_y == top + Times(panel_h, 6)
        loop(j) ==
            LET k == k1 + 53 * (j - 1)
                base_r == Uniform(4 * Unit, 8 * Unit, r, k + 1)
                cx_loop == _jitter(x, 60, r, k + 2)
                cy_loop == _clamp_y(_jitter(center_y, 40, r, k + 3), g.height)
                rr(p) == Times(base_r, 7 + Times(3, Uniform(0, 10, r, k + 3 + 2 * p)))
            IN [Prim("path", "element", i,
                     [p \in 1..25 |-> cx_loop
                          + Times(rr(p), 9) * (IF (p - 1) % 2 = 0 THEN 1 ELSE -1)],
                     [p \in 1..25 |-> cy_loop
                          + Times(rr(p), 7) * (IF (p - 1) % 3 = 0 THEN 1 ELSE -1)])
                EXCEPT !.op = 700]
        k2 == k1 + 53 * loops
        \* 5) step dots
        base_y == top + panel_h - 20 * Unit
        dot(j) == [Prim("circle", "element", i,
                        <<x + Uniform(-120, 120, r, k2 + 2 * j - 1)>>,
                        <<_clamp_y(base_y + Uniform(-80, 80, r, k2 + 2 * j), g.height)>>)
                   EXCEPT !.r = 9, !.op = 600]
    IN Emit(<<bar>> \o [n \in 1..coffee |-> cup(n - 1)] \o <<petal>>
                \o [j \in 1..loops |-> loop(j)] \o [j \in 1..dots |-> dot(j)],
            k2 + 2 * dots)

(***************************************************************************)
(* Main render function                                                    *)
(***************************************************************************)
\* `_escape(v or "")` raises AttributeError when v is truthy and no string
EscapeRaises(v) == Truthy(v) /\ v.t # "text"

EscapeOf(v) == IF Truthy(v) THEN _escape(v.cs) ELSE <<>>

\* `fill` after the attribute resolution of the standard primitives
ResolveFill(el, el_type) ==
    LET fill0 == Get(el, "fill")
        fill1 == IF ~Truthy(fill0) /\ "color" \in DOMAIN el.kv /\ el_type = "text"
                 THEN Get(el, "color") ELSE fill0
    IN IF ~Truthy(fill1) THEN S("none") ELSE fill1

\* the resolution of `stroke` without its last statement, `if not stroke and
\* el_type != "text"`
ResolveStrokeFilledOnly(el, el_type) ==
    LET fill0 == Get(el, "fill")
        fill1 == IF ~Truthy(fill0) /\ "color" \in DOMAIN el.kv /\ el_type = "text"
                 THEN Get(el, "color") ELSE fill0
    IN IF Truthy(fill1) /\ ~Truthy(Get(el, "stroke")) /\ fill1 # S("none")
          /\ el_type # "text"
       THEN S("#222222") ELSE Get(el, "stroke")

\* `stroke` after the attribute resolution of the standard primitives
ResolveStroke(el, el_type) ==
    LET fill0 == Get(el, "fill")
        fill1 == IF ~Truthy(fill0) /\ "color" \in DOMAIN el.kv /\ el_type = "text"
                 THEN Get(el, "color") ELSE fill0
        stroke1 == IF Truthy(fill1) /\ ~Truthy(Get(el, "stroke"))
                      /\ fill1 # S("none") /\ el_type # "text"
                   THEN S("#222222") ELSE Get(el, "stroke")
    IN IF ~Truthy(stroke1) /\ el_type # "text" THEN S("#222222") ELSE stroke1

\* One iteration of the loop `for el in elements` of render_visual_spec, for
\* element number i, with the generator in state r.
RenderElement(el, i, g, r) ==
    IF NameRaises(el, "type") THEN Raised
    ELSE
    LET el_type == NameOf(el, "type")
        hw == (g.width * Unit) \div 2
        hh == (g.height * Unit) \div 2
        \* draw 1 of a standard primitive: the default of opacity is evaluated
        \* whether or not the element has an opacity
        opacity == Opacity(Get(el, "opacity"), Uniform(860, 1000, r, 1))
        fill == ResolveFill(el, el_type)
        stroke == ResolveStroke(el, el_type)
    IN
    CASE el_type = "cluster_area" ->
           LET x == tx(g, _get_num(Get(el, "x"), hw))
               y == _clamp_y(ty(g, _get_num(Get(el, "y"), hh)), g.height)
               w == _get_num(Get(el, "width"), 120 * Unit)
               h == _get_num(Get(el, "height"), 60 * Unit)
           IN Emit(<<[Prim("rect", "element", i, <<x - w \div 2>>, <<y - h \div 2>>)
                      EXCEPT !.w = w, !.h = h, !.op = 600]>>, 0)
      [] el_type = "shape_cluster" -> _render_shape_cluster(el, i, g, r)
      [] el_type = "timeline_separator" ->
           LET x1 == tx(g, _get_num(Get(el, "x_start"), 40 * Unit))
               x2 == tx(g, _get_num(Get(el, "x_end"), (g.width - 40) * Unit))
               y == _clamp_y(ty(g, _get_num(Get(el, "y"), hh)), g.height)
               d == _wobble_path(x1, y, x2, y, 20, r, 1)
           IN Emit(<<[Prim("path", "element", i, d.xs, d.ys) EXCEPT !.op = 700]>>, 2)
      [] el_type = "visualization_unit" -> _render_visualization_unit(el, i, g, r)
      [] el_type = "legend_title_box" -> Emit(<<>>, 0)
      [] el_type = "circle" ->
           LET cx == _jitter(tx(g, _get_num(Get(el, "x"), hw)), 23, r, 2)
               cy == _clamp_y(_jitter(ty(g, _get_num(Get(el, "y"), hh)), 23, r, 3), g.height)
               rad == Max2(_jitter(_get_num(Get(el, "radius"), 8 * Unit), 10, r, 4), 8)
           IN Emit(<<[Prim("circle", "element", i, <<cx>>, <<cy>>)
                      EXCEPT !.r = rad, !.op = opacity, !.fill = fill, !.stroke = stroke]>>, 4)
      [] el_type = "line" ->
           LET x1_raw == _get_num(Get(el, "x"), hw)
               y1_raw == _get_num(Get(el, "y"), hh)
               x2_raw == _get_num(Get(el, "x2"), x1_raw + 10 * Unit)
               y2_raw == _get_num(Get(el, "y2"), y1_raw)
               x1 == _jitter(tx(g, x1_raw), 20, r, 2)
               y1 == _clamp_y(_jitter(ty(g, y1_raw), 20, r, 3), g.height)
               x2 == _jitter(tx(g, x2_raw), 20, r, 4)
               y2 == _clamp_y(_jitter(ty(g, y2_raw), 20, r, 5), g.height)
               d == _wobble_path(x1, y1, x2, y2, 30, r, 6)
           IN Emit(<<[Prim("path", "element", i, d.xs, d.ys)
                      EXCEPT !.op = opacity, !.stroke = stroke]>>, 7)
      [] el_type = "polygon" ->
           \* `isinstance(pts, list) and pts`, then the valid points only
           LET vp == ValidPoints(PointItems(el))
               n == Len(vp)
               px(p) == _jitter(tx(g, _get_num(vp[p].items[1], 0)), 18, r, 2 * p)
               py(p) == _clamp_y(_jitter(ty(g, _get_num(vp[p].items[2], 0)), 18, r, 2 * p + 1),
                                 g.height)
           IN IF n = 0 THEN Emit(<<>>, 1)
              ELSE Emit(<<[Prim("polygon", "element", i,
                                [p \in 1..n |-> px(p)], [p \in 1..n |-> py(p)])
                           EXCEPT !.op = opacity, !.fill = fill, !.stroke = stroke]>>,
                      1 + 2 * n)
      [] el_type = "path" ->
           IF ~Truthy(Get(el, "d")) THEN Emit(<<>>, 1)
           ELSE IF EscapeRaises(Get(el, "d")) THEN Raised
           ELSE Emit(<<[Prim("path", "element", i, <<>>, <<>>)
                        EXCEPT !.op = opacity, !.body = EscapeOf(Get(el, "d")),
                               !.fill = fill, !.stroke = stroke]>>, 1)
      [] el_type = "text" ->
           LET tx_final == _jitter(tx(g, _get_num(Get(el, "x"), hw)), 12, r, 2)
               ty_final == _clamp_y(_jitter(ty(g, _get_num(Get(el, "y"), hh)), 12, r, 3),
                                    g.height)
               style == Get(el, "style")
           IN \* `"title" in (el.get("style") or "")` raises TypeError on a number
              IF EscapeRaises(Get(el, "text")) \/ (Truthy(style) /\ IsNumber(style))
              THEN Raised
              ELSE Emit(<<[Prim("text", "element", i, <<tx_final>>, <<ty_final>>)
                           EXCEPT !.op = opacity, !.body = EscapeOf(Get(el, "text")),
                                  !.fill = GetD(el, "color", GetD(el, "fill", S("#333333")))]>>,
                      3)
      [] OTHER -> Emit(<<>>, 1)

\* `spec.get("canvas", {}) or {}`
CanvasOf(sp) == IF Truthy(GetD(sp, "canvas", D(<<>>))) THEN Get(sp, "canvas") ELSE D(<<>>)

\* `spec.get("elements", []) or []`
ElementsOf(sp) == IF Truthy(Get(sp, "elements")) THEN Get(sp, "elements") ELSE L(<<>>)

\* The part of render_visual_spec before the element loop: canvas, shell,
\* background, defs, title, the opening of the content group, the bounding
\* box and the transform.  g holds the locals the rest of the call reads.
Prologue(sp) ==
    LET canvas == CanvasOf(sp)
        no == [raised |-> TRUE, prims |-> <<>>, g |-> Geometry(1, 1, NoBbox)]
    IN
    IF canvas.t # "dict" THEN no
    ELSE
    LET wv == GetD(canvas, "width", N(1200))
        hv == GetD(canvas, "height", N(800))
    IN
    \* int(None), int("abc"), int([]) raise
    IF IntRaises(wv) \/ IntRaises(hv) THEN no
    ELSE
    LET width == IntOf(wv)
        height == IntOf(hv)
        elements == ElementsOf(sp)
        title_text == Get(sp, "title")
    IN
    IF EscapeRaises(title_text) THEN no
    \* `for el in elements` over a truthy value that is no list
    ELSE IF elements.t # "list" THEN no
    ELSE
    LET bb == _compute_bbox(elements.items, width, height) IN
    IF bb.raised THEN no
    ELSE [raised |-> FALSE,
          prims |->
              \* the <svg> tag: its viewBox in w and h, its attributes in body
              <<[Prim("svg", "shell", 0, <<0>>, <<0>>)
                 EXCEPT !.w = width * Unit, !.h = height * Unit,
                        !.body = <<"xmlns", "viewBox", "preserveAspectRatio", "style">>],
                [Prim("rect", "background", 0, <<0>>, <<0>>)
                 EXCEPT !.w = width * Unit, !.h = height * Unit],
                Prim("defs", "shell", 0, <<>>, <<>>)>>
              \o (IF Truthy(title_text)
                  THEN <<[Prim("text", "title", 0, <<(width * Unit) \div 2>>, <<50 * Unit>>)
                          EXCEPT !.body = EscapeOf(title_text)]>>
                  ELSE <<>>)
              \o <<Prim("g", "shell", 0, <<>>, <<>>)>>,
          g |-> Geometry(width, height, bb.bbox)]

\* the characters of the fallback message
FallbackText == <<"N", "o", " ", "v", "i", "s", "u", "a", "l", " ", "e", "l", "e", "m",
                  "e", "n", "t", "s", " ", "g", "e", "n", "e", "r", "a", "t", "e", "d">>

\* legend_top with the sign of the offset slipped
LegendTopAbove(height) == (height - LEGEND_RESERVED_HEIGHT - 30) * Unit

\* legend_top = height - LEGEND_RESERVED_HEIGHT + 30, in tenths
LegendTop(height) == (height - LEGEND_RESERVED_HEIGHT + 30) * Unit

\* the default legend title
LegendWord == T(<<"L", "e", "g", "e", "n", "d">>)

\* the legend title taken as "Legend" whatever the legend holds
LegendTitleFixed(legend_spec) == LegendWord

\* legend_title (lines 670-674): the `title` of a legend object
LegendTitleOf(legend_spec) ==
    IF legend_spec.t = "dict" THEN GetD(legend_spec, "title", LegendWord) ELSE LegendWord

\* legend_items (lines 669-676): the `items` of a legend object, or the list
LegendItemsOf(legend_spec) ==
    IF legend_spec.t = "dict"
    THEN (IF Truthy(Get(legend_spec, "items")) THEN Get(legend_spec, "items") ELSE L(<<>>))
    ELSE IF legend_spec.t = "list" THEN legend_spec
    ELSE L(<<>>)

\* The legend block (lines 668-713): the box, the title and one marker and one
\* label per item, the item idx (from 0) at ly = legend_top + 8 + idx * 22.
LegendBlock(sp, g) ==
    LET legend_spec == Get(sp, "legend")
        legend_title == LegendTitleOf(legend_spec)
        legend_items == LegendItemsOf(legend_spec)
        legend_top == LegendTop(g.height)
        legend_left == 70 * Unit
        line_height == 22 * Unit
    IN
    IF ~Truthy(legend_items) THEN Emit(<<>>, 0)
    ELSE IF EscapeRaises(legend_title) THEN Raised
    \* enumerate() of a number raises; the entries of a string or of a dict
    \* are strings, and item.get raises on them
    ELSE IF legend_items.t # "list" THEN Raised
    ELSE
    LET items == legend_items.items
        n == Len(items)
        bad(k) == \/ items[k].t # "dict"
                  \/ EscapeRaises(GetD(items[k], "label", T(<<>>)))
        ly(k) == legend_top + 8 * Unit + (k - 1) * line_height
        shape_desc(k) == Get(items[k], "shape")
        label(k) == EscapeOf(GetD(items[k], "label", T(<<>>)))
                    \o (IF Truthy(shape_desc(k))
                        THEN <<" ", "-", " ">>
                             \o (IF shape_desc(k).t = "text" THEN shape_desc(k).cs ELSE <<"?">>)
                        ELSE <<>>)
        pair(k) == <<[Prim("circle", "legend_marker", 0, <<legend_left>>, <<ly(k)>>)
                      EXCEPT !.r = 5 * Unit],
                     [Prim("text", "legend_label", 0,
                           <<legend_left + 18 * Unit>>, <<ly(k) + 4 * Unit>>)
                      EXCEPT !.body = label(k)]>>
    IN
    IF \E k \in 1..n : bad(k) THEN Raised
    ELSE Emit(<<[Prim("rect", "legend_box", 0,
                      <<legend_left - 30 * Unit>>, <<legend_top - 26 * Unit>>)
                 EXCEPT !.w = g.width * Unit - 2 * (legend_left - 30 * Unit),
                        !.h = (LEGEND_RESERVED_HEIGHT - 40) * Unit],
                [Prim("text", "legend_title", 0, <<legend_left>>, <<legend_top - 6 * Unit>>)
                 EXCEPT !.body = EscapeOf(legend_title)]>>
              \o [k \in 1..(2 * n) |-> pair((k + 1) \div 2)[2 - (k % 2)]],
              0)

\* Epilogue with the fallback message placed at y = height
EpilogueLowFallback(sp, g) ==
    LET lg == LegendBlock(sp, g) IN
    IF lg.raised THEN Raised
    ELSE Emit(<<Prim("/g", "shell", 0, <<>>, <<>>)>>
              \o lg.prims
              \o (IF ElementsOf(sp).items = <<>>
                  THEN <<[Prim("text", "fallback", 0,
                               <<(g.width * Unit) \div 2>>, <<g.height * Unit>>)
                          EXCEPT !.body = FallbackText]>>
                  ELSE <<>>)
              \o <<Prim("/svg", "shell", 0, <<>>, <<>>)>>,
              0)

\* Epilogue with the content group left open
EpilogueGroupLeftOpen(sp, g) ==
    LET lg == LegendBlock(sp, g) IN
    IF lg.raised THEN Raised
    ELSE Emit(lg.prims
              \o (IF ElementsOf(sp).items = <<>>
                  THEN <<[Prim("text", "fallback", 0,
                               <<(g.width * Unit) \div 2>>, <<(g.height * Unit) \div 2>>)
                          EXCEPT !.body = FallbackText]>>
                  ELSE <<>>)
              \o <<Prim("/svg", "shell", 0, <<>>, <<>>)>>,
              0)

\* The part of render_visual_spec after the element loop: the closing of the
\* content group, the legend, the fallback message and </svg>.
Epilogue(sp, g) ==
    LET lg == LegendBlock(sp, g) IN
    IF lg.raised THEN Raised
    ELSE Emit(<<Prim("/g", "shell", 0, <<>>, <<>>)>>
              \o lg.prims
              \o (IF ElementsOf(sp).items = <<>>
                  THEN <<[Prim("text", "fallback", 0,
                               <<(g.width * Unit) \div 2>>, <<(g.height * Unit) \div 2>>)
                          EXCEPT !.body = FallbackText]>>
                  ELSE <<>>)
              \o <<Prim("/svg", "shell", 0, <<>>, <<>>)>>,
              0)

\* render_visual_spec(sp) run alone, with the generator in state r when it is
\* called: the element loop from element i on, then the epilogue
RECURSIVE LoopFrom(_, _, _, _, _)
LoopFrom(sp, g, i, r, acc) ==
    IF i > Len(ElementsOf(sp).items)
    THEN LET e == Epilogue(sp, g) IN
         IF e.raised THEN [raised |-> TRUE, out |-> <<>>, rng |-> r]
         ELSE [raised |-> FALSE, out |-> acc \o e.prims, rng |-> r]
    ELSE LET e == RenderElement(ElementsOf(sp).items[i], i, g, r) IN
         IF e.raised THEN [raised |-> TRUE, out |-> <<>>, rng |-> r]
         ELSE LoopFrom(sp, g, i + 1, RngAdvance(r, e.draws), acc \o e.prims)

RenderAlone(sp, r) ==
    LET p == Prologue(sp) IN
    IF p.raised THEN [raised |-> TRUE, out |-> <<>>, rng |-> r]
    ELSE LoopFrom(sp, p.g, 1, r, p.prims)

(***************************************************************************)
(* Inputs                                                                  *)
(***************************************************************************)
Calls == {1, 2}

Pt(x, y) == L(<<N(x), N(y)>>)

CircleBig == D([type |-> S("circle"), x |-> N(600), y |-> N(400), radius |-> N(300)])
CircleBare == D([type |-> S("CIRCLE")])
CircleSmall == D([type |-> S("circle"), x |-> N(600), y |-> N(400), radius |-> N(50),
                  fill |-> S("#E07638")])
LineEl == D([type |-> S("line"), x |-> N(0), y |-> N(0), x2 |-> N(10), y2 |-> N(10)])
LineFlat == D([type |-> S("line"), x |-> N(100), y |-> N(200), x2 |-> N(300)])
PolygonEl == D([type |-> S("polygon"),
                points |-> L(<<Pt(0, 0), N(5), Pt(100, 0), L(<<N(1)>>), Pt(50, 80)>>)])
PolygonEmpty == D([type |-> S("polygon"), points |-> L(<<>>)])
PolygonMissing == D([type |-> S("polygon")])
PolygonMalformed == D([type |-> S("polygon"), points |-> L(<<N(5), L(<<N(1)>>)>>)])
PolygonNumber == D([type |-> S("polygon"), points |-> N(5)])
TextEl == D([type |-> S("text"), x |-> N(100), y |-> N(700), text |-> T(<<"<", "&">>)])
TextNumber == D([type |-> S("text"), text |-> N(5)])
PathEl == D([type |-> S("path"), d |-> T(<<"M", "<">>)])
PathEmpty == D([type |-> S("path")])
TimelineEl == D([type |-> S("timeline_separator")])
ClusterArea == D([type |-> S("cluster_area"), x |-> N(0), y |-> N(0), width |-> N(200)])
ShapeCluster == D([type |-> S("shape_cluster"), area_center |-> Pt(100, 100),
                   shape |-> S("wobbly_square"), count |-> N(1)])
ShapeClusterBare == D([type |-> S("shape_cluster")])
ShapeClusterShort == D([type |-> S("shape_cluster"), area_center |-> L(<<N(5)>>)])
VisUnit == D([type |-> S("visualization_unit"), x |-> N(0), y_start |-> N(1000),
              data |-> D([sleep |-> N(8), coffee |-> N(1), mood |-> N(5),
                          interactions |-> N(1), steps_density |-> N(1)])])
LegendTitleBox == D([type |-> S("legend_title_box")])
UnknownType == D([type |-> S("blob")])
NoType == D([x |-> N(3)])
NumberType == D([type |-> N(5)])
NotADict == N(5)

\* the elements that are combined into lists of up to MaxElems
CorePool == {CircleBig, LineEl, PolygonEl, TextEl, TimelineEl, VisUnit, UnknownType, NotADict}

\* the elements that are rendered alone
SinglePool ==
    CorePool \cup
    {CircleBare, PolygonEmpty, PolygonMalformed, PolygonNumber, TextNumber, PathEl,
     PathEmpty, LineFlat, ClusterArea, ShapeCluster, ShapeClusterBare, ShapeClusterShort,
     LegendTitleBox, NoType, NumberType}

Canvas1200 == D([width |-> N(1200), height |-> N(800)])

LegendItem == D([label |-> T(<<"a", "<">>), color |-> S("#111")])

LegendList(n) == L([k \in 1..n |-> LegendItem])

SpecOf(elements, legend) ==
    D([canvas |-> Canvas1200, elements |-> L(elements), legend |-> legend])

SeqsUpTo(pool, n) == UNION {[1..k -> pool] : k \in 0..n}

\* mixes of valid, partially valid and invalid elements
MixedInputs ==
    {SpecOf(es, LegendList(1)) : es \in SeqsUpTo(CorePool, MaxElems)}
    \cup {SpecOf(<<e>>, LegendList(1)) : e \in SinglePool}

\* one text element, with every text up to MaxText characters
Alphabet == {"&", "<", ">", "\"", "'", "a"}

ScenarioText == <<"<", "s", "c", "r", "i", "p", "t", ">", "&", "\"", "'">>

TextInputs ==
    {SpecOf(<<D([type |-> S("text"), x |-> N(100), y |-> N(200), text |-> T(cs)])>>, NONE) :
        cs \in SeqsUpTo(Alphabet, MaxText) \cup {ScenarioText}}

\* every legend size, as a list and as an object, with and without elements,
\* with the canvas given and defaulted
LegendInputs ==
    {SpecOf(es, LegendList(n)) : es \in {<<>>, <<CircleBig>>}, n \in 0..MaxLegend}
    \cup {D([elements |-> L(es),
             legend |-> D([title |-> T(<<"M">>), items |-> LegendList(n)])]) :
            es \in {<<>>, <<LineEl>>}, n \in 0..MaxLegend}
    \cup {D([canvas |-> Canvas1200]), D([elements |-> NONE, title |-> T(<<"t", "&">>)]),
          D(<<>>)}

\* the values given as canvas width and height: missing, a positive integer,
\* zero, negative, fractional, null, a numeral and a non-numeric string
CanvasValues == {N(1200), N(0), N(-100), F(6405), NONE, S("640"), S("abc")}

CanvasDicts ==
    {D([width |-> w, height |-> h]) : w, h \in CanvasValues}
    \cup {D([height |-> h]) : h \in CanvasValues}
    \cup {D([width |-> w]) : w \in CanvasValues}

\* every canvas, without elements and with one circle; and a canvas that is
\* no dict
CanvasInputs ==
    {D([canvas |-> cv, elements |-> L(es)]) : cv \in CanvasDicts, es \in {<<>>, <<CircleBig>>}}
    \cup {D([canvas |-> N(5)]), D([canvas |-> NONE, elements |-> L(<<CircleBig>>)])}

\* a legend of two items A and B, as a list and as an object with and
\* without a title, and legend objects without items
ItemA == D([label |-> T(<<"A", "&">>), color |-> S("#111")])
ItemB == D([label |-> T(<<"B">>), color |-> S("#222")])
Metrics == T(<<"M", "e", "t", "r", "i", "c", "s">>)

LegendForms ==
    {L(<<ItemA, ItemB>>), L(<<ItemB, ItemA>>),
     D([title |-> Metrics, items |-> L(<<ItemA, ItemB>>)]),
     D([items |-> L(<<ItemB, ItemA, ItemB>>)]),
     D([title |-> Metrics]), D([title |-> Metrics, items |-> NONE]),
     D([title |-> T(<<"<", "M">>), items |-> L(<<ItemA>>)])}

LegendFormInputs ==
    {SpecOf(es, lg) : es \in {<<>>, <<CircleBig>>, <<LineEl, TextEl>>}, lg \in LegendForms}

\* lists of circles, with an empty legend, no legend, and an empty title
CircleInputs ==
    {SpecOf(es, lg) : es \in SeqsUpTo({CircleBig, CircleBare, CircleSmall}, MaxCircles),
                      lg \in {L(<<>>)}}
    \cup {D([canvas |-> Canvas1200, elements |-> L(<<CircleSmall>>), title |-> T(<<>>)]),
          D([canvas |-> Canvas1200, elements |-> L(<<CircleSmall>>), title |-> T(<<"t">>),
             legend |-> L(<<ItemA>>)])}

\* lists of polygons with and without valid points, next to a circle
PolygonInputs ==
    {SpecOf(es, NONE) :
        es \in SeqsUpTo({PolygonEl, PolygonEmpty, PolygonMalformed, PolygonMissing, CircleBig},
                        MaxElems)}

\* a canvas lower than the top margin and the legend band together
Canvas200 == D([width |-> N(1200), height |-> N(200)])

ShortCanvasInputs ==
    {D([canvas |-> Canvas200, elements |-> L(es)]) : es \in {<<CircleBig>>, <<CircleBig, LineEl>>}}

\* the ways an element gives an attribute: not at all, null, empty, "none"
\* and a colour
ABSENT == [t |-> "absent"]

AttrValues == {ABSENT, NONE, S(""), S("none"), S("#E07638")}

\* the element with the key set to the value, or without the key
With(el, key, v) == IF v = ABSENT THEN el ELSE D((key :> v) @@ el.kv)

PathLine == D([type |-> S("path"), d |-> T(<<"M", "0">>)])

\* one circle, line, polygon or path with every combination of fill and stroke
AttrInputs ==
    {SpecOf(<<With(With(e, "fill", f), "stroke", s)>>, NONE) :
        e \in {CircleSmall, LineEl, PolygonEl, PathLine}, f \in AttrValues, s \in AttrValues}

\* legend items whose label and shape hold markup characters, under a title
\* that holds some
LegendMarkupInputs ==
    {SpecOf(<<>>, D([title |-> T(<<"<", "T", ">", "&">>),
                     items |-> L(<<With(D([label |-> T(lb)]), "shape", sh)>>)])) :
        lb \in {<<"a">>, <<"a", "<", "&">>},
        sh \in {ABSENT, T(<<"c">>), T(<<"<", "b", ">">>), T(<<"&">>), T(<<"\"", "'">>)}}

Inputs ==
    CircleInputs \cup PolygonInputs \cup MixedInputs \cup TextInputs \cup LegendInputs
    \cup CanvasInputs \cup LegendFormInputs \cup ShortCanvasInputs \cup AttrInputs
    \cup LegendMarkupInputs

\* the specs given to two calls that share the generator
TwoInputs ==
    {SpecOf(es, NONE) : es \in {<<>>, <<CircleBig>>, <<LineEl, TextEl>>, <<PolygonEl, UnknownType>>,
                                <<TimelineEl, NotADict>>}}

(***************************************************************************)
(* The spec producer (visual_spec_generator.py)                            *)
(*                                                                         *)
(* A text of the model is a sequence of tokens: FENCE is a line of three   *)
(* backquotes (with or without a language tag), PROSE a run of words that  *)
(* is no JSON, "{" and "}" the braces of an object, a key token one        *)
(* `"key": value` member of an object (with its comma), and "5", "[]" the  *)
(* JSON texts of a number and of an empty list.                            *)
(***************************************************************************)
FENCE == "fence"
PROSE == "prose"

KeyTokens == {"canvas", "elements", "legend", "title"}

\* the value a key token carries
ValueOfKey(k) ==
    CASE k = "canvas" -> Canvas1200
      [] k = "elements" -> L(<<CircleSmall>>)
      [] k = "legend" -> L(<<ItemA>>)
      [] k = "title" -> T(<<"t", "&">>)

\* json.loads(text): the value, or JSONDecodeError (ok = FALSE)
JsonLoads(text) ==
    IF text = <<"5">> THEN [ok |-> TRUE, value |-> N(5)]
    ELSE IF text = <<"[]">> THEN [ok |-> TRUE, value |-> L(<<>>)]
    ELSE IF /\ Len(text) >= 2
            /\ text[1] = "{"
            /\ text[Len(text)] = "}"
            /\ \A i \in 2..(Len(text) - 1) : text[i] \in KeyTokens
         THEN [ok |-> TRUE,
               value |-> D([k \in {text[i] : i \in 2..(Len(text) - 1)} |-> ValueOfKey(k)])]
    ELSE [ok |-> FALSE, value |-> NONE]

\* str.find / str.rfind of a token: its first / last position, 0 when absent
Find(text, tok) ==
    IF \E i \in 1..Len(text) : text[i] = tok
    THEN CHOOSE i \in 1..Len(text) : text[i] = tok /\ \A j \in 1..(i - 1) : text[j] # tok
    ELSE 0

RFind(text, tok) ==
    IF \E i \in 1..Len(text) : text[i] = tok
    THEN CHOOSE i \in 1..Len(text) : text[i] = tok /\ \A j \in (i + 1)..Len(text) : text[j] # tok
    ELSE 0

\* the fences stripped: the first line dropped when the text starts with a
\* fence and has a second line, then a closing fence dropped
StripFences(text) ==
    IF text # <<>> /\ Head(text) = FENCE
    THEN LET rest == IF Len(text) >= 2 THEN Tail(text) ELSE text IN
         IF rest[Len(rest)] = FENCE THEN SubSeq(rest, 1, Len(rest) - 1) ELSE rest
    ELSE text

\* _extract_json_from_text(raw_text): the parsed value, or ValueError (ok = FALSE)
_extract_json_from_text(raw_text) ==
    LET text == StripFences(raw_text)
        start == Find(text, "{")
        end == RFind(text, "}")
    IN IF JsonLoads(text).ok THEN JsonLoads(text)
       ELSE IF start # 0 /\ end # 0 /\ end > start
            THEN JsonLoads(SubSeq(text, start, end))
       ELSE [ok |-> FALSE, value |-> NONE]

\* what gemini.generate gives: a text, or an exception (RuntimeError on an
\* empty response, an error of the client library)
Text(tokens) == [raised |-> FALSE, text |-> tokens]
GenerateRaised == [raised |-> TRUE, text |-> <<>>]

\* _repair_json_with_gemini(raw_text, gemini) for a repair call that gives rp
_repair_json_with_gemini(rp) ==
    IF rp.raised THEN [ok |-> FALSE, value |-> NONE]
    ELSE _extract_json_from_text(rp.text)

\* the fallback spec of generate_visual_spec; a string without a character
\* that _escape replaces is kept as one piece
FallbackLabel == T(<<"Model output could not be parsed as JSON even after repair.">>)
FallbackTitle == T(<<"Fallback visual - JSON could not be repaired">>)

FallbackSpec(raw_response_text) ==
    D([canvas |-> D([width |-> N(1200), height |-> N(800), background |-> S("#FDFBF7")]),
       elements |-> L(<<>>),
       legend |-> L(<<D([label |-> FallbackLabel, shape |-> T(<<"circle">>),
                         color |-> S("#999999"),
                         styleNotes |-> T(<<"fallback / parsing error">>)])>>),
       title |-> FallbackTitle,
       _raw_model_text |-> T(raw_response_text)])

\* the defaults of spec.setdefault
DefaultOf(k) ==
    CASE k = "canvas" -> D([width |-> N(1200), height |-> N(800), background |-> S("#FDFBF7")])
      [] k = "elements" -> L(<<>>)
      [] k = "legend" -> L(<<>>)
      [] k = "title" -> T(<<"Data Humanism Visual">>)

\* the four spec.setdefault calls on a dict
SetDefaults(sp) ==
    D([k \in (DOMAIN sp.kv) \cup KeyTokens |->
          IF k \in DOMAIN sp.kv THEN sp.kv[k] ELSE DefaultOf(k)])

\* the texts of the model
Tokens == {FENCE, PROSE, "{", "}", "elements", "5"}

DesignTexts ==
    SeqsUpTo(Tokens, MaxTokens)
    \cup {<<"{", "canvas", "elements", "legend", "title", "}">>,
          <<FENCE, "{", "elements", "title", "}", FENCE>>,
          <<PROSE, "{", "legend", "}", PROSE>>,
          <<FENCE, PROSE, "{", "canvas", "}", PROSE, FENCE>>,
          <<FENCE, "[]", FENCE>>,
          <<"[]">>,
          <<PROSE, "{", PROSE, "}", PROSE>>,
          <<PROSE, "{", "elements", "}", PROSE, "}">>}

RepairReplies ==
    {GenerateRaised, Text(<<PROSE>>), Text(<<"{", "elements", "}">>),
     Text(<<FENCE, "{", "title", "}", FENCE>>), Text(<<"[]">>), Text(<<"{", "elements">>)}

(***************************************************************************)
(* The calls of render_visual_spec                                         *)
(***************************************************************************)
\* one render call, made with the generator in whatever state it is in (the
\* application never seeds it)
Init ==
    /\ rng \in RngStates
    /\ \E sp \in Inputs : spec = [c \in Calls |-> sp]
    /\ seed = [c \in Calls |-> rng]
    /\ pc = [c \in Calls |-> IF c = 1 THEN "ready" ELSE "off"]
    /\ geo = [c \in Calls |-> Geometry(1, 1, NoBbox)]
    /\ idx = [c \in Calls |-> 1]
    /\ svg = [c \in Calls |-> <<>>]
    /\ reply = <<>>
    /\ gpc = "off"
    /\ vspec = NONE
    /\ shown = "nothing"
    /\ calls = 0
    /\ clamp = NoClamp

\* two render calls, each made by a caller that first seeds the generator
InitTwo ==
    /\ rng = 0
    /\ spec \in [Calls -> TwoInputs]
    /\ \E s \in RngStates : seed = [c \in Calls |-> s]
    /\ pc = [c \in Calls |-> "caller"]
    /\ geo = [c \in Calls |-> Geometry(1, 1, NoBbox)]
    /\ idx = [c \in Calls |-> 1]
    /\ svg = [c \in Calls |-> <<>>]
    /\ reply = <<>>
    /\ gpc = "off"
    /\ vspec = NONE
    /\ shown = "nothing"
    /\ calls = 0
    /\ clamp = NoClamp

\* the caller of call c seeds the generator: random.seed(seed[c])
Seed(c) ==
    /\ pc[c] = "caller"
    /\ rng' = seed[c]
    /\ pc' = [pc EXCEPT ![c] = "ready"]
    /\ UNCHANGED <<spec, seed, geo, idx, svg>>
    /\ UNCHANGED genvars

\* Begin with svg_parts a list shared by the calls instead of a fresh local
BeginSharedParts(c) ==
    /\ pc[c] = "ready"
    /\ LET p == Prologue(spec[c]) IN
       /\ pc' = [pc EXCEPT ![c] = IF p.raised THEN "raised" ELSE "elements"]
       /\ svg' = [svg EXCEPT ![c] = svg[1] \o p.prims]
       /\ geo' = [geo EXCEPT ![c] = p.g]
    /\ idx' = [idx EXCEPT ![c] = 1]
    /\ UNCHANGED <<rng, spec, seed>>
    /\ UNCHANGED genvars

\* lines 405-495: up to the transform
Begin(c) ==
    /\ pc[c] = "ready"
    /\ LET p == Prologue(spec[c]) IN
       /\ pc' = [pc EXCEPT ![c] = IF p.raised THEN "raised" ELSE "elements"]
       /\ svg' = [svg EXCEPT ![c] = p.prims]
       /\ geo' = [geo EXCEPT ![c] = p.g]
    /\ idx' = [idx EXCEPT ![c] = 1]
    /\ UNCHANGED <<rng, spec, seed>>
    /\ UNCHANGED genvars

\* DrawElement appending to a list every call in its loop shares
DrawElementSharedParts(c) ==
    /\ pc[c] = "elements"
    /\ idx[c] <= Len(ElementsOf(spec[c]).items)
    /\ LET e == RenderElement(ElementsOf(spec[c]).items[idx[c]], idx[c], geo[c], rng) IN
       /\ pc' = [pc EXCEPT ![c] = IF e.raised THEN "raised" ELSE "elements"]
       /\ svg' = [k \in Calls |->
                    IF k = c THEN (IF e.raised THEN <<>> ELSE svg[c] \o e.prims)
                    ELSE IF pc[k] = "elements" THEN svg[k] \o e.prims
                    ELSE svg[k]]
       /\ rng' = RngAdvance(rng, e.draws)
    /\ idx' = [idx EXCEPT ![c] = idx[c] + 1]
    /\ UNCHANGED <<spec, seed, geo>>
    /\ UNCHANGED genvars

\* DrawElement inserting what it draws right after the opening of the content
\* group, under what was drawn before
DrawElementPaintsUnder(c) ==
    /\ pc[c] = "elements"
    /\ idx[c] <= Len(ElementsOf(spec[c]).items)
    /\ LET e == RenderElement(ElementsOf(spec[c]).items[idx[c]], idx[c], geo[c], rng)
           open == CHOOSE j \in 1..Len(svg[c]) : svg[c][j].tag = "g"
       IN
       /\ pc' = [pc EXCEPT ![c] = IF e.raised THEN "raised" ELSE "elements"]
       /\ svg' = [svg EXCEPT ![c] = IF e.raised THEN <<>>
                                    ELSE SubSeq(svg[c], 1, open) \o e.prims
                                         \o SubSeq(svg[c], open + 1, Len(svg[c]))]
       /\ rng' = RngAdvance(rng, e.draws)
    /\ idx' = [idx EXCEPT ![c] = idx[c] + 1]
    /\ UNCHANGED <<spec, seed, geo>>
    /\ UNCHANGED genvars

\* lines 498-663: one iteration of `for el in elements`
DrawElement(c) ==
    /\ pc[c] = "elements"
    /\ idx[c] <= Len(ElementsOf(spec[c]).items)
    /\ LET e == RenderElement(ElementsOf(spec[c]).items[idx[c]], idx[c], geo[c], rng) IN
       /\ pc' = [pc EXCEPT ![c] = IF e.raised THEN "raised" ELSE "elements"]
       /\ svg' = [svg EXCEPT ![c] = IF e.raised THEN <<>> ELSE svg[c] \o e.prims]
       /\ rng' = RngAdvance(rng, e.draws)
    /\ idx' = [idx EXCEPT ![c] = idx[c] + 1]
    /\ UNCHANGED <<spec, seed, geo>>
    /\ UNCHANGED genvars

\* lines 665-724: after the loop, to the return
Finish(c) ==
    /\ pc[c] = "elements"
    /\ idx[c] > Len(ElementsOf(spec[c]).items)
    /\ LET e == Epilogue(spec[c], geo[c]) IN
       /\ pc' = [pc EXCEPT ![c] = IF e.raised THEN "raised" ELSE "done"]
       /\ svg' = [svg EXCEPT ![c] = IF e.raised THEN <<>> ELSE svg[c] \o e.prims]
    /\ UNCHANGED <<rng, spec, seed, geo, idx>>
    /\ UNCHANGED genvars

Next == \E c \in Calls : Begin(c) \/ DrawElement(c) \/ Finish(c)

Spec == Init /\ [][Next]_vars

\* two seeded calls, the second made after the first has returned
NextSeq ==
    \E c \in Calls :
        /\ c = 2 => pc[1] \in {"done", "raised"}
        /\ Seed(c) \/ Begin(c) \/ DrawElement(c) \/ Finish(c)

SpecSeq == InitTwo /\ [][NextSeq]_vars

\* two seeded calls on two threads: their steps interleave
NextConc == \E c \in Calls : Seed(c) \/ Begin(c) \/ DrawElement(c) \/ Finish(c)

SpecConc == InitTwo /\ [][NextConc]_vars

(***************************************************************************)
(* One request of the app: generate_visual_spec, then render_visual_spec   *)
(***************************************************************************)
\* the app has called generate_visual_spec and the design call has returned
\* a text
InitGen ==
    /\ rng \in RngStates
    /\ spec = [c \in Calls |-> D(<<>>)]
    /\ seed = [c \in Calls |-> rng]
    /\ pc = [c \in Calls |-> "off"]
    /\ geo = [c \in Calls |-> Geometry(1, 1, NoBbox)]
    /\ idx = [c \in Calls |-> 1]
    /\ svg = [c \in Calls |-> <<>>]
    /\ \E d \in DesignTexts, rp \in RepairReplies : reply = <<Text(d), rp>>
    /\ gpc = "call"
    /\ vspec = NONE
    /\ shown = "nothing"
    /\ calls = 0
    /\ clamp = NoClamp

\* visual_spec_generator.py lines 184-187: the first call of the model
Generate ==
    /\ gpc = "call"
    /\ calls' = calls + 1
    /\ gpc' = "parse"
    /\ UNCHANGED <<rng, spec, seed, pc, geo, idx, svg, reply, vspec, shown, clamp>>

\* Extract going on to the repair call whatever the first response holds
ExtractAlwaysRepairs ==
    /\ gpc = "parse"
    /\ LET e == _extract_json_from_text(reply[1].text) IN
       /\ gpc' = "repair"
       /\ vspec' = IF e.ok THEN e.value ELSE vspec
    /\ UNCHANGED <<rng, spec, seed, pc, geo, idx, svg, reply, shown, calls, clamp>>

\* visual_spec_generator.py lines 190-193: the first response is parsed
Extract ==
    /\ gpc = "parse"
    /\ LET e == _extract_json_from_text(reply[1].text) IN
       /\ gpc' = IF e.ok THEN "defaults" ELSE "repair"
       /\ vspec' = IF e.ok THEN e.value ELSE vspec
    /\ UNCHANGED <<rng, spec, seed, pc, geo, idx, svg, reply, shown, calls, clamp>>

\* Repair with the failure of the repair passed on to the caller
RepairFailurePassedOn ==
    /\ gpc = "repair"
    /\ LET e == _repair_json_with_gemini(reply[2]) IN
       /\ gpc' = IF e.ok THEN "defaults" ELSE "raised"
       /\ vspec' = IF e.ok THEN e.value ELSE vspec
    /\ calls' = calls + 1
    /\ UNCHANGED <<rng, spec, seed, pc, geo, idx, svg, reply, shown, clamp>>

\* lines 194-217: the repair call, and the fallback spec when it fails
Repair ==
    /\ gpc = "repair"
    /\ LET e == _repair_json_with_gemini(reply[2]) IN
       /\ gpc' = "defaults"
       /\ vspec' = IF e.ok THEN e.value ELSE FallbackSpec(reply[1].text)
    /\ calls' = calls + 1
    /\ UNCHANGED <<rng, spec, seed, pc, geo, idx, svg, reply, shown, clamp>>

\* lines 219-225: the setdefault calls and the return; setdefault on a value
\* that is no dict raises AttributeError
Defaults ==
    /\ gpc = "defaults"
    /\ gpc' = IF vspec.t = "dict" THEN "returned" ELSE "raised"
    /\ vspec' = IF vspec.t = "dict" THEN SetDefaults(vspec) ELSE vspec
    /\ UNCHANGED <<rng, spec, seed, pc, geo, idx, svg, reply, shown, calls, clamp>>

\* app.py lines 880-923: the returned spec is rendered and the image put on
\* the page; an exception of the render is caught and shown as an error
Show ==
    /\ gpc = "returned"
    /\ LET out == RenderAlone(vspec, rng) IN
       /\ spec' = [spec EXCEPT ![1] = vspec]
       /\ pc' = [pc EXCEPT ![1] = IF out.raised THEN "raised" ELSE "done"]
       /\ geo' = [geo EXCEPT ![1] = Prologue(vspec).g]
       /\ svg' = [svg EXCEPT ![1] = out.out]
       /\ rng' = out.rng
       /\ shown' = IF out.raised THEN "error" ELSE "image"
    /\ gpc' = "end"
    /\ UNCHANGED <<seed, idx, reply, vspec, calls, clamp>>

\* app.py lines 937-940: an exception of generate_visual_spec is caught and
\* shown as an error
ShowError ==
    /\ gpc = "raised"
    /\ shown' = "error"
    /\ gpc' = "failed"
    /\ UNCHANGED <<rng, spec, seed, pc, geo, idx, svg, reply, vspec, calls, clamp>>

NextGen == Generate \/ Extract \/ Repair \/ Defaults \/ Show \/ ShowError

SpecGen == InitGen /\ [][NextGen]_vars

(***************************************************************************)
(* One call of _clamp_y                                                    *)
(***************************************************************************)
\* the y given to _clamp_y, in tenths, and the canvas heights
ClampYs == {-100, 0, 500, 899, 900, 901, 2000, 3900, 4000, 4001, 6399, 6400, 6401, 9000}

ClampHeights == {0, 200, 249, 250, 251, 640, 800, 1200}

InitClamp ==
    /\ rng = 0
    /\ spec = [c \in Calls |-> D(<<>>)]
    /\ seed = [c \in Calls |-> 0]
    /\ pc = [c \in Calls |-> "off"]
    /\ geo = [c \in Calls |-> Geometry(1, 1, NoBbox)]
    /\ idx = [c \in Calls |-> 1]
    /\ svg = [c \in Calls |-> <<>>]
    /\ reply = <<>>
    /\ gpc = "off"
    /\ vspec = NONE
    /\ shown = "nothing"
    /\ calls = 0
    /\ \E y \in ClampYs, height \in ClampHeights :
          clamp = [y |-> y, height |-> height, st |-> "call", out |-> 0]

\* src/renderer.py lines 26-37: the call returns
ClampY ==
    /\ clamp.st = "call"
    /\ clamp' = [clamp EXCEPT !.st = "returned", !.out = _clamp_y(clamp.y, clamp.height)]
    /\ UNCHANGED <<rng, spec, seed, pc, geo, idx, svg, reply, gpc, vspec, shown, calls>>

NextClamp == ClampY

SpecClamp == InitClamp /\ [][NextClamp]_vars

(***************************************************************************)
(* Properties                                                              *)
(***************************************************************************)
\* the entries of svg_parts of call c emitted with one of the roles
PrimsOf(c, roles) == {k \in 1..Len(svg[c]) : svg[c][k].role \in roles}

LegendRoles == {"legend_box", "legend_title", "legend_marker", "legend_label"}

\* the vertical extent of a primitive: its y coordinates, widened by its
\* radius and by its height
Top(p) == IF p.ys = <<>> THEN 0 ELSE SeqMin(p.ys) - p.r
Bottom(p) == IF p.ys = <<>> THEN 0 ELSE SeqMax(p.ys) + p.r + p.h

ElementsIn(c) == ElementsOf(spec[c]).items

HasElement(c, e) == \E i \in 1..Len(ElementsIn(c)) : ElementsIn(c)[i] = e

\* the canvas of call c is absent or a dict whose width and height, where
\* given, are numbers
CanvasGiven(c, key) ==
    GetD(CanvasOf(spec[c]), key, IF key = "width" THEN N(1200) ELSE N(800))

WellFormedCanvas(c) ==
    /\ CanvasOf(spec[c]).t = "dict"
    /\ IsNumber(CanvasGiven(c, "width"))
    /\ IsNumber(CanvasGiven(c, "height"))

\* C1: totality: whatever mix of valid, partially valid and type-invalid
\* entries `elements` holds, render_visual_spec returns and never raises.
\* (Stated for the specs whose canvas is well formed; their title and legend
\* are well formed in every input.)
C1_NeverRaises == WellFormedCanvas(1) => pc[1] # "raised"

\* C2: determinism under a fixed seed: two calls on the same spec, each made
\* after seeding the generator with the same value, return the same string.
C2_SameSeedSameOutput ==
    (/\ pc[1] \in {"done", "raised"}
     /\ pc[2] \in {"done", "raised"}
     /\ spec[1] = spec[2]
     /\ seed[1] = seed[2])
    => (pc[1] = pc[2] /\ svg[1] = svg[2])

\* C2 witness: both calls have returned the same spec with jittered primitives
C2_Witness ==
    /\ pc[1] = "done" /\ pc[2] = "done"
    /\ spec[1] = spec[2] /\ seed[1] = seed[2]
    /\ Cardinality(PrimsOf(1, {"element"})) >= 2
    /\ svg[1] = svg[2]

Frame(p) == [tag |-> p.tag, role |-> p.role, el |-> p.el, body |-> p.body, n |-> Len(p.xs)]

Frames(parts) == [k \in 1..Len(parts) |-> Frame(parts[k])]

Entity(ch) ==
    CASE ch = "&" -> AMP
      [] ch = "<" -> LT
      [] ch = ">" -> GT
      [] ch = "\"" -> QUOT
      [] ch = "'" -> APOS
      [] OTHER -> <<ch>>

RECURSIVE Entities(_)
Entities(cs) == IF cs = <<>> THEN <<>> ELSE Entity(Head(cs)) \o Entities(Tail(cs))

\* no raw < > " ' and every & starts one of the five entities
StartsWith(cs, k, pre) ==
    /\ k + Len(pre) - 1 <= Len(cs)
    /\ \A j \in 1..Len(pre) : cs[k + j - 1] = pre[j]

NoRawMarkup(cs) ==
    \A k \in 1..Len(cs) :
        /\ cs[k] \notin {"<", ">", "\"", "'"}
        /\ cs[k] = "&" => \E pre \in {AMP, LT, GT, QUOT, APOS} : StartsWith(cs, k, pre)

\* C4: escaping of text elements: the text node emitted for a text element
\* is its `text` with each of & < > " ' replaced by its entity, and holds no
\* raw markup character.
C4_TextEscaped ==
    pc[1] = "done" =>
        \A k \in PrimsOf(1, {"element"}) :
            LET p == svg[1][k]
                given == Get(ElementsIn(1)[p.el], "text")
            IN (p.tag = "text" /\ given.t = "text") =>
                   /\ p.body = Entities(given.cs)
                   /\ NoRawMarkup(p.body)

\* C4 witness: the text <script>&"' was rendered as &lt;script&gt;&amp;&quot;&apos;
C4_Witness ==
    /\ pc[1] = "done"
    /\ \E k \in PrimsOf(1, {"element"}) :
          /\ Get(ElementsIn(1)[svg[1][k].el], "text") = T(ScenarioText)
          /\ svg[1][k].body = LT \o <<"s", "c", "r", "i", "p", "t">> \o GT \o AMP \o QUOT \o APOS

\* C5: empty-elements fallback: with `elements` empty, missing or null the
\* render does not raise and returns exactly one fallback text node, at
\* (width / 2, height / 2).  (Stated for the specs whose canvas is well
\* formed: int() of a null or non-numeric canvas width raises before the
\* elements are looked at, see C11.)
C5_EmptyFallback ==
    (ElementsIn(1) = <<>> /\ WellFormedCanvas(1)) =>
        /\ pc[1] # "raised"
        /\ pc[1] = "done" =>
              /\ Cardinality(PrimsOf(1, {"fallback"})) = 1
              /\ \A k \in PrimsOf(1, {"fallback"}) :
                    /\ svg[1][k].tag = "text"
                    /\ svg[1][k].body = FallbackText
                    /\ 2 * svg[1][k].xs[1] = geo[1].width * Unit
                    /\ 2 * svg[1][k].ys[1] = geo[1].height * Unit

\* C5 witness: a render of a spec without an `elements` list returned the
\* fallback message
C5_Witness ==
    /\ pc[1] = "done"
    /\ "elements" \notin DOMAIN spec[1].kv
    /\ PrimsOf(1, {"fallback"}) # {}

BandTop(c) == (geo[c].height - LEGEND_RESERVED_HEIGHT) * Unit

\* C6: the legend stays in its band: for every item count, every legend
\* glyph has its vertical position in [height - LEGEND_RESERVED_HEIGHT, height].
C6_LegendInBand ==
    pc[1] = "done" =>
        \A k \in PrimsOf(1, LegendRoles) :
            \A j \in 1..Len(svg[1][k].ys) :
                /\ svg[1][k].ys[j] >= BandTop(1)
                /\ svg[1][k].ys[j] <= geo[1].height * Unit

\* the columns of the legend: the x positions of its markers
LegendColumns(c) == {svg[c][k].xs[1] : k \in PrimsOf(c, {"legend_marker"})}

RowsIn(c, x) == Cardinality({k \in PrimsOf(c, {"legend_marker"}) : svg[c][k].xs[1] = x})

\* C7: legend column policy: one column up to 7 items; beyond 7 items two
\* columns, ceil(n / 2) items in the first, so that no column holds more than
\* max(7, ceil(n / 2)) rows.
C7_LegendColumns ==
    pc[1] = "done" =>
        LET n == Cardinality(PrimsOf(1, {"legend_marker"})) IN
        /\ (1 <= n /\ n <= 7) => Cardinality(LegendColumns(1)) = 1
        /\ n > 7 =>
              /\ Cardinality(LegendColumns(1)) = 2
              /\ \E x \in LegendColumns(1) : RowsIn(1, x) = (n + 1) \div 2
        /\ \A x \in LegendColumns(1) : RowsIn(1, x) <= Max2(7, (n + 1) \div 2)

\* C8: legend non-overlap, upper edge: for every item count no legend glyph
\* reaches above height - LEGEND_RESERVED_HEIGHT.
C8_LegendBelowBandTop ==
    pc[1] = "done" =>
        \A k \in PrimsOf(1, LegendRoles) : Top(svg[1][k]) >= BandTop(1)

\* C8 witness: a legend of 20 items was laid out
C8_Witness ==
    /\ pc[1] = "done"
    /\ Cardinality(PrimsOf(1, {"legend_marker"})) = 20

\* the largest jitter amplitude of the renderer (_jitter(cx, 10))
MaxJitter == 10 * Unit

\* C9: content containment: with a non-degenerate bounding box every
\* coordinate emitted for an element lies within the canvas, up to the
\* largest jitter amplitude.
C9_ContentInCanvas ==
    (pc[1] = "done" /\ geo[1].fit) =>
        \A k \in PrimsOf(1, {"element"}) :
            LET p == svg[1][k] IN
            /\ \A j \in 1..Len(p.xs) :
                  p.xs[j] >= -MaxJitter /\ p.xs[j] <= geo[1].width * Unit + MaxJitter
            /\ \A j \in 1..Len(p.ys) :
                  p.ys[j] >= -MaxJitter /\ p.ys[j] <= geo[1].height * Unit + MaxJitter

\* C10: no overlap between drawing and legend: no primitive of an element
\* extends below content_bottom, and the legend starts at or below it.
C10_DrawingAboveLegend ==
    pc[1] = "done" =>
        /\ \A k \in PrimsOf(1, {"element"}) :
              Bottom(svg[1][k]) <= ContentBottom(geo[1].height)
        /\ \A k \in PrimsOf(1, LegendRoles) :
              Top(svg[1][k]) >= ContentBottom(geo[1].height)

\* C11: canvas dimensions: whatever the canvas holds (missing, zero, negative,
\* fractional, null or non-numeric width / height), the render does not
\* raise on it and the width and height it uses are positive integers.
C11_CanvasPositive ==
    /\ (ElementsIn(1) = <<>> \/ ElementsIn(1) = <<CircleBig>>) => pc[1] # "raised"
    /\ pc[1] \in {"elements", "done"} => (geo[1].width > 0 /\ geo[1].height > 0)

\* the bounding box of the elements of call c, as the call computes it
BboxIn(c) ==
    _compute_bbox(ElementsIn(c), IntOf(CanvasGiven(c, "width")), IntOf(CanvasGiven(c, "height")))

\* the call gets as far as the bounding box
CanvasUsable(c) ==
    /\ CanvasOf(spec[c]).t = "dict"
    /\ ~IntRaises(CanvasGiven(c, "width"))
    /\ ~IntRaises(CanvasGiven(c, "height"))

\* no element contributed to it, or it has no extent on an axis
Degenerate(c) ==
    /\ CanvasUsable(c)
    /\ ~BboxIn(c).raised
    /\ \/ ~BboxIn(c).bbox.has
       \/ BboxIn(c).bbox.min_x = BboxIn(c).bbox.max_x
       \/ BboxIn(c).bbox.min_y = BboxIn(c).bbox.max_y

\* coordinates the transform is probed with, in tenths
Probe == {-500, 0, 1000, 6000, 12345}

\* C12: degenerate-geometry fallback: when no element contributes to the
\* bounding box or the box has min = max on an axis, the part of the render
\* that computes the transform does not raise, and the transform is the
\* identity: tx(x) = x and ty(y) = y.
C12_DegenerateIdentity ==
    Degenerate(1) =>
        /\ pc[1] = "raised" => idx[1] > 1
        /\ pc[1] \in {"elements", "done"} =>
              /\ ~geo[1].fit
              /\ \A v \in Probe : tx(geo[1], v) = v /\ ty(geo[1], v) = v

\* C12 witness: a horizontal line was rendered with the identity transform,
\* its end points where the spec puts them, up to the jitter
C12_Witness ==
    /\ pc[1] = "done"
    /\ ElementsIn(1) = <<LineFlat>>
    /\ Degenerate(1)
    /\ \E k \in PrimsOf(1, {"element"}) :
          /\ svg[1][k].xs[1] \in (100 * Unit - 20)..(100 * Unit + 20)
          /\ svg[1][k].xs[3] \in (300 * Unit - 20)..(300 * Unit + 20)

\* the legend glyphs of call c, in the order emitted
IsLegendGlyph(p) == p.role \in LegendRoles

LegendSeq(c) == SelectSeq(svg[c], IsLegendGlyph)

\* the legend of the spec of call c read as the claim reads it: the title
\* and the items of an object, "Legend" and the list itself for a list
GivenLegendTitle(c) ==
    LET lg == Get(spec[c], "legend") IN
    IF lg.t = "dict" /\ "title" \in DOMAIN lg.kv THEN lg.kv.title.cs
    ELSE <<"L", "e", "g", "e", "n", "d">>

GivenLegendItems(c) ==
    LET lg == Get(spec[c], "legend") IN
    CASE lg.t = "list" -> lg.items
      [] lg.t = "dict" /\ "items" \in DOMAIN lg.kv /\ lg.kv.items.t = "list" -> lg.kv.items.items
      [] OTHER -> <<>>

\* C13: legend shape normalization: a list renders with the title "Legend",
\* an object with its title (default "Legend") and its items (default none);
\* n items give exactly n marker + label pairs in item order, after the box
\* and the title; no items give no legend block.
C13_LegendForms ==
    pc[1] = "done" =>
        LET items == GivenLegendItems(1)
            n == Len(items)
            lg == LegendSeq(1)
        IN IF n = 0 THEN lg = <<>>
           ELSE /\ Len(lg) = 2 + 2 * n
                /\ lg[1].role = "legend_box"
                /\ lg[2].role = "legend_title"
                /\ lg[2].body = Entities(GivenLegendTitle(1))
                /\ \A k \in 1..n :
                      /\ lg[2 * k + 1].role = "legend_marker"
                      /\ lg[2 * k + 2].role = "legend_label"
                      /\ "shape" \notin DOMAIN items[k].kv =>
                             lg[2 * k + 2].body = Entities(items[k].kv.label.cs)

\* C13 witness: the legend {title: "Metrics", items: [A, B]} was rendered
\* with the title Metrics and the two labels in order
C13_Witness ==
    /\ pc[1] = "done"
    /\ Get(spec[1], "legend") = D([title |-> Metrics, items |-> L(<<ItemA, ItemB>>)])
    /\ Len(LegendSeq(1)) = 6
    /\ LegendSeq(1)[2].body = Metrics.cs
    /\ LegendSeq(1)[4].body = <<"A">> \o AMP
    /\ LegendSeq(1)[6].body = <<"B">>

\* an element given as a circle
IsCircleEl(el) ==
    /\ el.t = "dict"
    /\ Get(el, "type").t = "str"
    /\ Get(el, "type").s \in {"circle", "CIRCLE"}

PrimsTagged(c, tag) == {k \in 1..Len(svg[c]) : svg[c][k].tag = tag}

\* C14: primitive count for circles: n circle elements, an empty legend and
\* no title give exactly n circle primitives, no legend block and no title
\* text node.
C14_CircleCount ==
    (/\ pc[1] = "done"
     /\ \A i \in 1..Len(ElementsIn(1)) : IsCircleEl(ElementsIn(1)[i])
     /\ ~Truthy(Get(spec[1], "legend"))
     /\ ~Truthy(Get(spec[1], "title")))
    => /\ Cardinality(PrimsTagged(1, "circle")) = Len(ElementsIn(1))
       /\ \A i \in 1..Len(ElementsIn(1)) :
             Cardinality({k \in PrimsTagged(1, "circle") : svg[1][k].el = i}) = 1
       /\ PrimsOf(1, LegendRoles) = {}
       /\ PrimsOf(1, {"title"}) = {}

\* C14 witness: one circle (600, 400, 50) with an empty legend and no title
\* was rendered as one circle; and three circles as three
C14_Witness ==
    /\ pc[1] = "done"
    /\ Get(spec[1], "legend") = L(<<>>)
    /\ "title" \notin DOMAIN spec[1].kv
    /\ ElementsIn(1) \in {<<CircleSmall>>, <<CircleBare, CircleBig, CircleSmall>>}
    /\ Cardinality(PrimsTagged(1, "circle")) = Len(ElementsIn(1))

\* a polygon element whose `points` is missing or a list
IsPolygonEl(el) ==
    /\ el.t = "dict"
    /\ Get(el, "type") = S("polygon")
    /\ Get(el, "points").t \in {"none", "list"}

\* its valid 2-tuples, in order
GivenPoints(el) ==
    IF Get(el, "points").t = "list" THEN SelectSeq(Get(el, "points").items, ValidPoint)
    ELSE <<>>

IsSkippedPolygon(el) == IsPolygonEl(el) /\ GivenPoints(el) = <<>>

IsKept(el) == ~IsSkippedPolygon(el)

\* C15: polygon skipping: a polygon without a valid 2-tuple in `points`
\* (empty, missing, only malformed entries) emits no primitive, raises no
\* error and leaves the bounding box as it is without it; a polygon with
\* valid points emits exactly one polygon primitive, built from its valid
\* points only.  (The part on errors is stated for a well-formed canvas.)
C15_PolygonSkipping ==
    /\ (/\ WellFormedCanvas(1)
        /\ ElementsIn(1) # <<>>
        /\ \A i \in 1..Len(ElementsIn(1)) : IsPolygonEl(ElementsIn(1)[i]))
          => pc[1] # "raised"
    /\ pc[1] = "done" =>
          /\ \A i \in 1..Len(ElementsIn(1)) :
                LET el == ElementsIn(1)[i]
                    mine == {k \in PrimsOf(1, {"element"}) : svg[1][k].el = i}
                    vp == GivenPoints(el)
                IN IsPolygonEl(el) =>
                     IF vp = <<>> THEN mine = {}
                     ELSE /\ Cardinality(mine) = 1
                          /\ \A k \in mine :
                                /\ svg[1][k].tag = "polygon"
                                /\ Len(svg[1][k].xs) = Len(vp)
                                /\ Len(svg[1][k].ys) = Len(vp)
                                /\ \A j \in 1..Len(vp) :
                                      Abs(svg[1][k].xs[j]
                                          - tx(geo[1], _get_num(vp[j].items[1], 0))) <= 18
          /\ geo[1] = Geometry(geo[1].width, geo[1].height,
                               _compute_bbox(SelectSeq(ElementsIn(1), IsKept),
                                             geo[1].width, geo[1].height).bbox)

\* C15 witness: a polygon with only malformed points, next to a circle, was
\* skipped; and a polygon of three valid and two malformed points was drawn
\* with three vertices
C15_Witness ==
    /\ pc[1] = "done"
    /\ ElementsIn(1) = <<PolygonMalformed, PolygonEl>>
    /\ PrimsOf(1, {"element"}) # {}
    /\ \A k \in PrimsOf(1, {"element"}) : svg[1][k].el = 2 /\ Len(svg[1][k].xs) = 3

\* neither the design text nor the repair reply parses as JSON
Unparseable ==
    /\ ~_extract_json_from_text(reply[1].text).ok
    /\ ~_repair_json_with_gemini(reply[2]).ok

\* the value generate_visual_spec got from the texts is no JSON object
ParsedNoObject ==
    \/ /\ _extract_json_from_text(reply[1].text).ok
       /\ _extract_json_from_text(reply[1].text).value.t # "dict"
    \/ /\ ~_extract_json_from_text(reply[1].text).ok
       /\ _repair_json_with_gemini(reply[2]).ok
       /\ _repair_json_with_gemini(reply[2]).value.t # "dict"

RequestOver == gpc \in {"end", "failed"}

\* C16 (as claimed): when the model's text cannot be turned into a spec
\* object even after the repair attempt, the request ends with an error shown
\* and no image rendered.
C16_UnparseableShowsError ==
    (RequestOver /\ (Unparseable \/ ParsedNoObject)) =>
        (shown = "error" /\ svg[1] = <<>>)

\* C16 (amended): when neither the model's text nor the repaired text parses
\* as JSON (or the repair call raises), generate_visual_spec returns its
\* fallback spec and the app renders it: an image with the fallback title,
\* a one-item legend saying that the output could not be parsed, the "no
\* visual elements" message and no element, and no error is shown.  An error
\* and no image are what the request ends with when a text parses to a JSON
\* value that is no object.
C16_UnparseableShowsFallback ==
    RequestOver =>
        /\ Unparseable =>
              /\ gpc = "end"
              /\ shown = "image"
              /\ vspec = FallbackSpec(reply[1].text)
              /\ pc[1] = "done"
              /\ PrimsOf(1, {"element"}) = {}
              /\ Cardinality(PrimsOf(1, {"fallback"})) = 1
              /\ \E k \in PrimsOf(1, {"title"}) : svg[1][k].body = FallbackTitle.cs
              /\ Cardinality(PrimsOf(1, {"legend_label"})) = 1
              /\ \A k \in PrimsOf(1, {"legend_label"}) :
                    SubSeq(svg[1][k].body, 1, 1) = FallbackLabel.cs
        /\ ParsedNoObject => (gpc = "failed" /\ shown = "error" /\ svg[1] = <<>>)

\* C16 witness: a text of prose, and a repair reply of prose, ended as the
\* fallback image
C16_Witness ==
    /\ gpc = "end"
    /\ reply = <<Text(<<PROSE>>), Text(<<PROSE>>)>>
    /\ shown = "image"
    /\ PrimsOf(1, {"legend_label"}) # {}

\* C17: result shape of generate_visual_spec: whatever text the model
\* returns (an object, fenced, in prose, a non-object value, unparseable),
\* generate_visual_spec returns a dict with the keys canvas, elements,
\* legend and title.
C17_ResultHasKeys ==
    /\ gpc # "raised"
    /\ gpc \in {"returned", "end"} =>
          /\ vspec.t = "dict"
          /\ KeyTokens \subseteq DOMAIN vspec.kv

\* the positions of the entry of svg_parts of call c with the tag
At(c, tag) == CHOOSE k \in PrimsTagged(c, tag) : TRUE

\* C18: output envelope: the returned string begins with one <svg> element
\* that declares the namespace and the viewBox "0 0 width height" of the
\* canvas and has no width / height attribute, ends with </svg>, and the
\* content group opened before the elements is closed exactly once, before
\* the legend.
C18_Envelope ==
    pc[1] = "done" =>
        /\ Len(svg[1]) >= 2
        /\ PrimsTagged(1, "svg") = {1}
        /\ PrimsTagged(1, "/svg") = {Len(svg[1])}
        /\ {"xmlns", "viewBox"} \subseteq {svg[1][1].body[j] : j \in 1..Len(svg[1][1].body)}
        /\ \A j \in 1..Len(svg[1][1].body) : svg[1][1].body[j] \notin {"width", "height"}
        /\ svg[1][1].xs = <<0>>
        /\ svg[1][1].ys = <<0>>
        /\ svg[1][1].w = geo[1].width * Unit
        /\ svg[1][1].h = geo[1].height * Unit
        /\ (CanvasGiven(1, "width").t = "num"
               => svg[1][1].w = CanvasGiven(1, "width").n * Unit)
        /\ (CanvasGiven(1, "height").t = "num"
               => svg[1][1].h = CanvasGiven(1, "height").n * Unit)
        /\ Cardinality(PrimsTagged(1, "g")) = 1
        /\ Cardinality(PrimsTagged(1, "/g")) = 1
        /\ At(1, "g") < At(1, "/g")
        /\ (\A k \in PrimsOf(1, {"element"}) : At(1, "g") < k /\ k < At(1, "/g"))
        /\ (\A k \in PrimsOf(1, LegendRoles \cup {"fallback"}) : At(1, "/g") < k)

\* C18 witness: a render with an element and a legend returned the shell,
\* the group with the element in it, then the legend
C18_Witness ==
    /\ pc[1] = "done"
    /\ svg[1][1].tag = "svg" /\ svg[1][1].w = 1200 * Unit /\ svg[1][1].h = 800 * Unit
    /\ svg[1][Len(svg[1])].tag = "/svg"
    /\ \E k \in PrimsOf(1, {"element"}), j \in PrimsOf(1, {"legend_box"}) :
          At(1, "g") < k /\ k < At(1, "/g") /\ At(1, "/g") < j

\* the element types said to bear a position, and the semantic types the
\* bounding box covers as well
PlainKinds == {"circle", "line", "polygon", "text"}

SemanticKinds == {"cluster_area", "shape_cluster", "visualization_unit"}

\* the type an element gives, in lower case; "" when it gives none
KindOf(el) ==
    IF el.t = "dict" /\ ~NameRaises(el, "type") /\ Truthy(Get(el, "type"))
    THEN Lower(Get(el, "type").s) ELSE ""

\* the corner points an element of one of the kinds has, in tenths, on a
\* canvas with the centre (hw, hh)
CornersOf(el, kinds, hw, hh) ==
    LET kind == KindOf(el)
        x == _get_num(Get(el, "x"), hw)
        y == _get_num(Get(el, "y"), hh)
    IN
    IF kind \notin kinds THEN {}
    ELSE CASE kind = "circle" ->
                LET r == _get_num(Get(el, "radius"), 0) IN
                {<<x - r, y - r>>, <<x + r, y + r>>}
           [] kind = "line" ->
                {<<x, y>>, <<_get_num(Get(el, "x2"), x + 10 * Unit), _get_num(Get(el, "y2"), y)>>}
           [] kind = "polygon" ->
                {<<_get_num(GivenPoints(el)[j].items[1], 0), _get_num(GivenPoints(el)[j].items[2], 0)>> :
                    j \in 1..Len(GivenPoints(el))}
           [] kind = "text" -> {<<x, y>>}
           [] kind = "cluster_area" ->
                {<<x, y>>, <<x + _get_num(Get(el, "width"), 100 * Unit),
                             y + _get_num(Get(el, "height"), 60 * Unit)>>}
           [] kind = "shape_cluster" ->
                LET cx == AreaCenterAt(el, 1, hw)
                    cy == AreaCenterAt(el, 2, hh)
                IN {<<cx - 50 * Unit, cy - 50 * Unit>>, <<cx + 50 * Unit, cy + 50 * Unit>>}
           [] kind = "visualization_unit" ->
                LET y_start == _get_num(Get(el, "y_start"), hh) IN
                {<<x - 30 * Unit, y_start>>, <<x + 30 * Unit, y_start + 140 * Unit>>}
           [] OTHER -> {}

\* the corner points of the elements of call c that are of the kinds
CornersIn(c, kinds) ==
    UNION {CornersOf(ElementsIn(c)[i], kinds,
                     (geo[c].width * Unit) \div 2, (geo[c].height * Unit) \div 2) :
              i \in 1..Len(ElementsIn(c))}

SetMin(vs) == CHOOSE v \in vs : \A u \in vs : v <= u

SetMax(vs) == CHOOSE v \in vs : \A u \in vs : v >= u

\* the bounding box of call c is the tight rectangle over the points
TightOver(c, points) ==
    IF points = {} THEN ~geo[c].bbox.has
    ELSE /\ geo[c].bbox.has
         /\ geo[c].bbox.min_x = SetMin({pt[1] : pt \in points})
         /\ geo[c].bbox.max_x = SetMax({pt[1] : pt \in points})
         /\ geo[c].bbox.min_y = SetMin({pt[2] : pt \in points})
         /\ geo[c].bbox.max_y = SetMax({pt[2] : pt \in points})

\* C19 as claimed: the bounding box is the tight rectangle over exactly the
\* circles (centre +/- radius), lines (both end points), polygons (valid
\* vertices) and texts (anchor); path elements and the semantic elements
\* (cluster_area, shape_cluster, timeline_separator, visualization_unit,
\* unknown types) contribute nothing to it.
C19_BboxPlainOnly ==
    pc[1] \in {"elements", "done"} => TightOver(1, CornersIn(1, PlainKinds))

\* C19: bounding-box membership: the bounding box is the tight rectangle over
\* the circles (centre +/- radius), lines (both end points), polygons (valid
\* vertices), texts (anchor), cluster_area elements (x .. x + width,
\* y .. y + height), shape_cluster elements (area centre +/- 50) and
\* visualization_unit elements (x +/- 30, y_start .. y_start + 140); path,
\* timeline_separator, legend_title_box and unknown types contribute nothing.
C19_BboxMembers ==
    pc[1] \in {"elements", "done"} =>
        /\ TightOver(1, CornersIn(1, PlainKinds \cup SemanticKinds))
        /\ \A i \in 1..Len(ElementsIn(1)) :
              KindOf(ElementsIn(1)[i]) \in {"path", "timeline_separator", "legend_title_box", "blob"}
                  => CornersOf(ElementsIn(1)[i], PlainKinds \cup SemanticKinds, 0, 0) = {}

\* C19 witness: a circle and a visualization unit were rendered; the box
\* reaches from the unit's left edge (x - 30) to the circle's right edge and
\* down to the unit's lower edge (y_start + 140)
C19_Witness ==
    /\ pc[1] = "done"
    /\ ElementsIn(1) = <<CircleBig, VisUnit>>
    /\ geo[1].bbox = [has |-> TRUE, min_x |-> -30 * Unit, max_x |-> 900 * Unit,
                      min_y |-> 100 * Unit, max_y |-> 1140 * Unit]

\* the content band of call c: its width and height, in tenths
AvailW(c) == geo[c].width * Unit - 2 * ((geo[c].width * Unit) \div 10)

AvailH(c) ==
    (geo[c].height - LEGEND_RESERVED_HEIGHT - 30) * Unit - (CONTENT_TOP_MARGIN + 10) * Unit

\* the centre of the content band
BandCx(c) == (geo[c].width * Unit) \div 2

BandCy(c) ==
    ((CONTENT_TOP_MARGIN + 10) * Unit + (geo[c].height - LEGEND_RESERVED_HEIGHT - 30) * Unit) \div 2

\* the bounding box of call c has an extent on both axes
NonDegenerate(c) ==
    /\ pc[c] \in {"elements", "done"}
    /\ geo[c].bbox.has
    /\ geo[c].bbox.max_x > geo[c].bbox.min_x
    /\ geo[c].bbox.max_y > geo[c].bbox.min_y

\* the ratio n / d is the scale of call c
ScaleIs(c, n, d) ==
    /\ geo[c].num = n \div GCD(Abs(n), d)
    /\ geo[c].den = d \div GCD(Abs(n), d)

\* C20: fit transform: for a non-degenerate bounding box, tx and ty use the
\* one factor scale = min(avail_width / bbox_width, avail_height / bbox_height)
\* * 0.95 on both axes and map the centre of the bounding box to the centre
\* of the content band (width / 2, (margin_top + margin_bottom) / 2); the
\* fitted bounding box is not wider than avail_width nor taller than
\* avail_height.
C20_FitTransform ==
    NonDegenerate(1) =>
        LET g == geo[1]
            bw == g.bbox.max_x - g.bbox.min_x
            bh == g.bbox.max_y - g.bbox.min_y
            cx == (g.bbox.min_x + g.bbox.max_x) \div 2
            cy == (g.bbox.min_y + g.bbox.max_y) \div 2
        IN
        /\ g.fit
        /\ IF AvailW(1) * bh <= AvailH(1) * bw
           THEN ScaleIs(1, AvailW(1) * 95, bw * 100)
           ELSE ScaleIs(1, AvailH(1) * 95, bh * 100)
        /\ \A k \in {-1, 0, 1, 2} :
              /\ tx(g, cx + k * g.den) = BandCx(1) + k * g.num
              /\ ty(g, cy + k * g.den) = BandCy(1) + k * g.num
        /\ Abs(tx(g, g.bbox.max_x) - tx(g, g.bbox.min_x)) <= AvailW(1)
        /\ Abs(ty(g, g.bbox.max_y) - ty(g, g.bbox.min_y)) <= AvailH(1)

\* the part of C20 that holds on every canvas: the one factor and the centres
C20_UniformAndCentred ==
    NonDegenerate(1) =>
        LET g == geo[1]
            bw == g.bbox.max_x - g.bbox.min_x
            bh == g.bbox.max_y - g.bbox.min_y
            cx == (g.bbox.min_x + g.bbox.max_x) \div 2
            cy == (g.bbox.min_y + g.bbox.max_y) \div 2
        IN
        /\ g.fit
        /\ IF AvailW(1) * bh <= AvailH(1) * bw
           THEN ScaleIs(1, AvailW(1) * 95, bw * 100)
           ELSE ScaleIs(1, AvailH(1) * 95, bh * 100)
        /\ \A k \in {-1, 0, 1, 2} :
              /\ tx(g, cx + k * g.den) = BandCx(1) + k * g.num
              /\ ty(g, cy + k * g.den) = BandCy(1) + k * g.num
        /\ (AvailW(1) > 0 /\ AvailH(1) > 0) =>
              /\ tx(g, g.bbox.max_x) - tx(g, g.bbox.min_x) \in 0..AvailW(1)
              /\ ty(g, g.bbox.max_y) - ty(g, g.bbox.min_y) \in 0..AvailH(1)

\* C21 as claimed: circle radius: the radius emitted for a circle element is
\* the spec radius multiplied by the fit scale, then jittered by at most 1.0,
\* then floored at 0.8; it is never zero or negative.
C21_RadiusScaled ==
    pc[1] = "done" =>
        \A k \in PrimsOf(1, {"element"}) :
            LET e == ElementsIn(1)[svg[1][k].el]
                raw == _get_num(Get(e, "radius"), 8 * Unit)
                scaled == IF geo[1].fit THEN (raw * geo[1].num) \div geo[1].den ELSE raw
            IN IsCircleEl(e) =>
                  /\ svg[1][k].r > 0
                  /\ svg[1][k].r \in {Max2(v, 8) : v \in (scaled - 10)..(scaled + 10)}

\* the radius of every circle is the spec radius itself, jittered by at most
\* 1.0 and floored at 0.8, whatever the fit scale is
C21_RadiusUnscaled ==
    pc[1] = "done" =>
        \A k \in PrimsOf(1, {"element"}) :
            LET e == ElementsIn(1)[svg[1][k].el]
                raw == _get_num(Get(e, "radius"), 8 * Unit)
            IN IsCircleEl(e) =>
                  /\ svg[1][k].r > 0
                  /\ svg[1][k].r \in {Max2(v, 8) : v \in (raw - 10)..(raw + 10)}

\* the circle, line, polygon and path elements
IsShapeEl(el) == KindOf(el) \in {"circle", "line", "polygon", "path"}

\* a string that is written into an attribute as it is
DefinedString(v) == v.t = "str" /\ v.s # ""

\* C22: attribute resolution: for every circle, line, polygon and path
\* element, whether its fill and stroke are absent, null, empty, "none" or a
\* colour, the fill and the stroke that reach the emit step are defined
\* strings: a missing stroke becomes the dark stroke #222222 (also when the
\* fill is given and not "none"), a missing fill becomes "none", and a given
\* fill or stroke is kept.
C22_AttributesDefined ==
    pc[1] = "done" =>
        \A k \in PrimsOf(1, {"element"}) :
            LET e == ElementsIn(1)[svg[1][k].el] IN
            IsShapeEl(e) =>
                /\ DefinedString(svg[1][k].fill)
                /\ DefinedString(svg[1][k].stroke)
                /\ svg[1][k].stroke =
                      (IF Truthy(Get(e, "stroke")) THEN Get(e, "stroke") ELSE S("#222222"))
                /\ KindOf(e) # "line" =>
                      svg[1][k].fill =
                          (IF Truthy(Get(e, "fill")) THEN Get(e, "fill") ELSE S("none"))

\* C22 witness: a polygon with a fill and without a stroke was emitted with
\* its fill and the dark stroke
C22_Witness ==
    /\ pc[1] = "done"
    /\ ElementsIn(1) = <<With(PolygonEl, "fill", S("#E07638"))>>
    /\ \E k \in PrimsOf(1, {"element"}) :
          /\ svg[1][k].tag = "polygon"
          /\ svg[1][k].fill = S("#E07638")
          /\ svg[1][k].stroke = S("#222222")

\* the primitives call c emitted for element number i
PrimsFor(c, i) == {k \in PrimsOf(c, {"element"}) : svg[c][k].el = i}

\* the types that are drawn as one primitive each
StandardKinds == {"circle", "line", "polygon", "path", "text"}

\* the semantic types the element loop has a branch for
DrawnSemanticKinds == {"cluster_area", "shape_cluster", "timeline_separator", "visualization_unit"}

\* a dict whose type is a string, null or missing
HasKind(el) == el.t = "dict" /\ ~NameRaises(el, "type")

C24_PaintOrder ==
    pc[1] = "done" =>
        /\ \A k1, k2 \in PrimsOf(1, {"element"}) :
              svg[1][k1].el < svg[1][k2].el => k1 < k2
        /\ \A k \in PrimsOf(1, {"element"}) :
              /\ svg[1][k].el \in 1..Len(ElementsIn(1))
              /\ At(1, "g") < k /\ k < At(1, "/g")
              /\ \A b \in PrimsOf(1, {"background", "title"}) : b < k
              /\ \A l \in PrimsOf(1, LegendRoles \cup {"fallback"}) : k < l
        /\ \A b \in PrimsOf(1, {"background", "title"}) : b < At(1, "g")
        /\ \A l \in PrimsOf(1, LegendRoles \cup {"fallback"}) : At(1, "/g") < l

\* C24 witness: a visualization unit and then a circle were drawn, the
\* glyphs of the unit before the circle, and a legend after both
C24_Witness ==
    /\ pc[1] = "done"
    /\ ElementsIn(1) = <<VisUnit, CircleBig>>
    /\ Cardinality(PrimsFor(1, 1)) >= 2
    /\ \E k \in PrimsFor(1, 2) :
          /\ svg[1][k].tag = "circle"
          /\ \A j \in PrimsFor(1, 1) : j < k
          /\ \E l \in PrimsOf(1, {"legend_marker"}) : k < l

\* the band _clamp_y keeps y in, in tenths
ClampTop == CONTENT_TOP_MARGIN * Unit

ClampBottom == (clamp.height - LEGEND_RESERVED_HEIGHT - 20) * Unit

C26_LegendEscaped ==
    pc[1] = "done" =>
        \A k \in PrimsOf(1, {"legend_label", "legend_title"}) : NoRawMarkup(svg[1][k].body)

\* the label and the title are escaped; the shape is appended as it is given
C26_LabelAndTitleEscaped ==
    pc[1] = "done" =>
        /\ \A k \in PrimsOf(1, {"legend_title"}) :
              /\ NoRawMarkup(svg[1][k].body)
              /\ svg[1][k].body = Entities(GivenLegendTitle(1))
        /\ \A k \in PrimsOf(1, {"legend_label"}) :
              \E j \in 1..Len(GivenLegendItems(1)) :
                  LET lb == Entities(GetD(GivenLegendItems(1)[j], "label", T(<<>>)).cs) IN
                  /\ NoRawMarkup(lb)
                  /\ StartsWith(svg[1][k].body, 1, lb)
                  /\ ~Truthy(Get(GivenLegendItems(1)[j], "shape")) => svg[1][k].body = lb

\* the first response parses as JSON
FirstParses == _extract_json_from_text(reply[1].text).ok

\* generate_visual_spec is past its try statement
PastParsing == gpc \in {"defaults", "returned", "raised", "end", "failed"}

\* C27: generate / repair protocol: one invocation of generate_visual_spec
\* calls the model at most twice; the repair call is made only after the
\* extraction of JSON from the first response failed, and not when the first
\* response parses; when the repair call raises or its response fails
\* extraction too, no exception propagates and the result is the fallback
\* spec: no elements, one legend item, the raw model text under
\* _raw_model_text.
C27_Protocol ==
    /\ calls \in 0..2
    /\ calls = 2 => ~FirstParses
    /\ (PastParsing /\ FirstParses) => calls = 1
    /\ (PastParsing /\ ~FirstParses) => calls = 2
    /\ (PastParsing /\ Unparseable) =>
          /\ gpc \notin {"raised", "failed"}
          /\ vspec.t = "dict"
          /\ Get(vspec, "elements") = L(<<>>)
          /\ Get(vspec, "legend").t = "list" /\ Len(Get(vspec, "legend").items) = 1
          /\ Get(vspec, "_raw_model_text") = T(reply[1].text)
          /\ vspec = FallbackSpec(reply[1].text)

\* C27 witness: the first response was prose, the repair call raised, and
\* generate_visual_spec returned the fallback spec after two calls
C27_Witness ==
    /\ gpc = "returned"
    /\ reply = <<Text(<<PROSE>>), GenerateRaised>>
    /\ calls = 2
    /\ vspec = FallbackSpec(<<PROSE>>)

\* C28: positive fit scale: whenever the fit branch is taken (non-degenerate
\* bounding box), for every canvas width and height the available width and
\* height of the content band are positive and the scale factor is strictly
\* positive, so that the transform neither collapses the composition to a
\* point nor mirrors it.
C28_PositiveScale ==
    NonDegenerate(1) =>
        /\ geo[1].fit
        /\ AvailW(1) > 0
        /\ AvailH(1) > 0
        /\ geo[1].num > 0 /\ geo[1].den > 0
        /\ tx(geo[1], geo[1].bbox.min_x) < tx(geo[1], geo[1].bbox.max_x)
        /\ ty(geo[1], geo[1].bbox.min_y) < ty(geo[1], geo[1].bbox.max_y)

\* the scale is positive on the canvases whose content band is not empty
C28_PositiveScaleInBand ==
    (NonDegenerate(1) /\ geo[1].width > 0 /\ geo[1].height > 270) =>
        /\ geo[1].fit
        /\ AvailW(1) > 0
        /\ AvailH(1) > 0
        /\ geo[1].num > 0 /\ geo[1].den > 0
        /\ tx(geo[1], geo[1].bbox.min_x) < tx(geo[1], geo[1].bbox.max_x)
        /\ ty(geo[1], geo[1].bbox.min_y) < ty(geo[1], geo[1].bbox.max_y)

\* C29: never a blank image: whenever no element produces a primitive (the
\* element list is empty, or every element of it is skipped as unsupported,
\* as an empty path or as a polygon without valid points), the output holds
\* the fallback message; a returned image never has neither an element
\* primitive nor the fallback message.
C29_NeverBlank ==
    pc[1] = "done" =>
        (PrimsOf(1, {"element"}) # {} \/ PrimsOf(1, {"fallback"}) # {})

\* the fallback message is in the output exactly when the element list is
\* empty, whether or not an element of it produced a primitive
C29_FallbackOnlyWhenEmpty ==
    pc[1] = "done" =>
        (PrimsOf(1, {"fallback"}) # {} <=> ElementsIn(1) = <<>>)

\* the horizontal extent of a primitive: its x coordinates, widened by its
\* radius and by its width
Left(p) == IF p.xs = <<>> THEN 0 ELSE SeqMin(p.xs) - p.r

Right(p) == IF p.xs = <<>> THEN 0 ELSE SeqMax(p.xs) + p.r + p.w

\* every draw of call c returns the middle of its range: _jitter adds nothing
NoJitter(c) == seed[c] = 1

\* the primitive lies inside the fitted bounding box of call c, up to the
\* rounding of the divisions
InsideFitted(c, p) ==
    /\ tx(geo[c], geo[c].bbox.min_x) - 2 <= Left(p)
    /\ Right(p) <= tx(geo[c], geo[c].bbox.max_x) + 2
    /\ ty(geo[c], geo[c].bbox.min_y) - 2 <= Top(p)
    /\ Bottom(p) <= ty(geo[c], geo[c].bbox.max_y) + 2

\* C30: bounding box agrees with what is drawn: for every element that
\* contributes to the bounding box, the coordinates and defaults the
\* bounding-box stage assumes are the ones the render stage draws, so that
\* every drawn extent of such an element, before jitter, lies inside the
\* fitted bounding box.  (Stated for the renders that fit, with a positive
\* scale.)
C30_DrawnInsideBbox ==
    (pc[1] = "done" /\ NoJitter(1) /\ geo[1].fit /\ geo[1].num > 0) =>
        \A k \in PrimsOf(1, {"element"}) :
            (KindOf(ElementsIn(1)[svg[1][k].el]) \in PlainKinds \cup SemanticKinds
             /\ svg[1][k].xs # <<>>)
                => InsideFitted(1, svg[1][k])

\* the same for the elements whose drawn size does not depend on a radius,
\* a width or a default: lines, polygons and text anchors
C30_PointsInsideBbox ==
    (pc[1] = "done" /\ NoJitter(1) /\ geo[1].fit /\ geo[1].num > 0
     /\ geo[1].width > 0 /\ geo[1].height > 270) =>
        \A k \in PrimsOf(1, {"element"}) :
            (KindOf(ElementsIn(1)[svg[1][k].el]) \in {"line", "polygon", "text"}
             /\ svg[1][k].xs # <<>>)
                => InsideFitted(1, svg[1][k])

====
